---- MODULE Spec2Model ----
(***************************************************************************)
(* WAFu: a two-tier web application firewall on Cloudflare Workers.        *)
(*                                                                         *)
(* The model follows src/src/worker.js (the request pipeline),             *)
(* src/src/globa-rules-do.js lines 386-540 (GlobalRulesDO, the RPC         *)
(* version that worker.js calls through globalDO.evaluate),                *)
(* src/src/route-rules-do.js (RouteRulesDO) and the rule engine of         *)
(* src/utils.js (kept in src/src/audit-logs-do.js lines 144-276).          *)
(*                                                                         *)
(* Conventions.                                                            *)
(*  - A JavaScript string is a sequence of one-character tokens, so that   *)
(*    startsWith, endsWith, replace and includes are computed as the code  *)
(*    computes them.                                                       *)
(*  - A JavaScript value is a tagged record: Undef, Str(s), Num(n).        *)
(*  - A rules table is a sequence of rows in row order (SELECT * returns   *)
(*    the rows in that order and Array.prototype.sort is stable).          *)
(*  - Every `await` on SQL or on request.json() is a suspension point at   *)
(*    which other handlers of the same Durable Object may run.             *)
(*  - worker.js calls routeDO.evaluate(payload); RouteRulesDO offers its   *)
(*    evaluation as fetch('/evaluate') -> handleEvaluate, which is what    *)
(*    the route tier of the pipeline runs here.                            *)
(***************************************************************************)
EXTENDS Integers, Sequences, FiniteSets, TLC

VARIABLES
    evalIn,     \* SpecEval: the inputs handed to the pure functions
    evalOut,    \* SpecEval: their results
    routes,     \* global store, table routes (rows in row order)
    errorPages, \* global store, table error_pages
    db,         \* per store: the persisted rules table (rows in row order)
    cache,      \* per store: this.cache (NoCache = null)
    tasks,      \* per task slot: one worker.fetch invocation and the DO handler it runs
    ver,        \* per store: number of committed rule writes (history)
    ack,        \* per store: highest write version whose success was returned (history)
    started,    \* number of invocations started so far (bounded)
    writes,     \* number of write requests started so far (bounded)
    config,     \* SpecUI: the configuration held by the dashboard (React state)
    build,      \* SpecUI: which of the two dashboards of public/ is running
    sinks,      \* the tables events (EventLogsDO) and audit_logs (AuditLogsDO)
    otp         \* SpecOtp: one OtpDO object, its storage, the clock and its requests

vars == <<evalIn, evalOut, routes, errorPages, db, cache, tasks, ver, ack, started, writes,
         config, build, sinks, otp>>

(***************************************************************************)
(* Bounds                                                                  *)
(***************************************************************************)
MaxRules == 2       \* rows of a rules table in SpecEval
MaxPriority == 2    \* priorities range over 1..MaxPriority
MaxRoutes == 2      \* rows of the routes table in SpecEval
MaxTasks == 2       \* worker invocations in flight at once
MaxStarted == 4     \* invocations started in one behaviour of Spec
MaxWrites == 1      \* of which write requests

(***************************************************************************)
(* JavaScript strings as token sequences                                   *)
(***************************************************************************)
StartsWith(s, p) == Len(s) >= Len(p) /\ SubSeq(s, 1, Len(p)) = p

EndsWith(s, p) == Len(s) >= Len(p) /\ SubSeq(s, Len(s) - Len(p) + 1, Len(s)) = p

\* positions at which p occurs in s
Occurrences(s, p) == {i \in 1..(Len(s) - Len(p) + 1) : SubSeq(s, i, i + Len(p) - 1) = p}

Includes(s, p) == Occurrences(s, p) # {}

\* String.prototype.replace with a string pattern: the first occurrence only
ReplaceFirst(s, p, r) ==
    IF Occurrences(s, p) = {} THEN s
    ELSE LET i == CHOOSE k \in Occurrences(s, p) : \A j \in Occurrences(s, p) : k <= j
         IN SubSeq(s, 1, i - 1) \o r \o SubSeq(s, i + Len(p), Len(s))

(***************************************************************************)
(* JavaScript values                                                       *)
(***************************************************************************)
Undef == [t |-> "undefined"]
Str(s) == [t |-> "string", s |-> s]
Num(n) == [t |-> "number", n |-> n]

Bool(b) == [t |-> "boolean", b |-> b]

JsNull == [t |-> "null"]
Arr(xs) == [t |-> "array", xs |-> xs]

\* a function that a plain object inherits from Object.prototype
Inherited == [t |-> "object"]

\* v === null || v === undefined
IsNullish(v) == v.t \in {"undefined", "null"}

GET == <<"G", "E", "T">>
POST == <<"P", "O", "S", "T">>


(***************************************************************************)
(* The predicate and expression evaluators (utils.js)                      *)
(***************************************************************************)
DigitTokens == {"0", "1", "2", "3", "4", "5", "6", "7", "8", "9"}

DigitValue(c) ==
    CASE c = "0" -> 0 [] c = "1" -> 1 [] c = "2" -> 2 [] c = "3" -> 3 [] c = "4" -> 4
      [] c = "5" -> 5 [] c = "6" -> 6 [] c = "7" -> 7 [] c = "8" -> 8 [] c = "9" -> 9

RECURSIVE DigitsToNat(_)
DigitsToNat(s) ==
    IF s = <<>> THEN 0
    ELSE 10 * DigitsToNat(SubSeq(s, 1, Len(s) - 1)) + DigitValue(s[Len(s)])

\* ToNumber on a string: digits give their value, "" gives 0, anything else NaN
IsNumeric(s) == \A i \in 1..Len(s) : s[i] \in DigitTokens

\* Number.prototype.toString on a natural number
RECURSIVE NatToDigits(_)
NatToDigits(n) ==
    LET d == CHOOSE c \in DigitTokens : DigitValue(c) = n % 10
    IN IF n < 10 THEN <<d>> ELSE Append(NatToDigits(n \div 10), d)

\* Function.prototype.toString of a built-in: its first character and the rest
FunctionSource == <<"f", "unction Object() { [native code] }">>

\* ToString; an array joins the strings of its elements with ","
RECURSIVE ToStr(_)
ToStr(v) ==
    CASE v.t = "string" -> v.s
      [] v.t = "number" -> NatToDigits(v.n)
      [] v.t = "boolean" -> IF v.b THEN <<"t", "r", "u", "e">> ELSE <<"f", "a", "l", "s", "e">>
      [] v.t = "undefined" -> <<"u", "n", "d", "e", "f", "i", "n", "e", "d">>
      [] v.t = "null" -> <<"n", "u", "l", "l">>
      [] v.t = "object" -> FunctionSource
      [] v.t = "array" ->
            IF v.xs = <<>> THEN <<>>
            ELSE IF Len(v.xs) = 1 THEN ToStr(v.xs[1])
            ELSE ToStr(v.xs[1]) \o <<",">> \o ToStr(Arr(Tail(v.xs)))

\* ToPrimitive: arrays and objects become their strings
ToPrimitive(v) == IF v.t \in {"array", "object"} THEN Str(ToStr(v)) ELSE v

NaN == [nan |-> TRUE]

\* ToNumber on a primitive
ToNumber(v) ==
    CASE v.t = "number" -> [nan |-> FALSE, n |-> v.n]
      [] v.t = "string" -> IF IsNumeric(v.s) THEN [nan |-> FALSE, n |-> DigitsToNat(v.s)] ELSE NaN
      [] v.t = "null" -> [nan |-> FALSE, n |-> 0]
      [] v.t = "boolean" -> [nan |-> FALSE, n |-> IF v.b THEN 1 ELSE 0]
      [] OTHER -> NaN

\* the abstract equality comparison a == b
LooseEq(a, b) ==
    LET pa == ToPrimitive(a)
        pb == ToPrimitive(b)
    IN CASE a.t \in {"array", "object"} /\ b.t \in {"array", "object"} -> FALSE
         [] IsNullish(a) \/ IsNullish(b) -> IsNullish(a) /\ IsNullish(b)
         [] pa.t = "string" /\ pb.t = "string" -> pa.s = pb.s
         [] pa.t = "number" /\ pb.t = "number" -> pa.n = pb.n
         [] pa.t = "boolean" /\ pb.t = "boolean" -> pa.b = pb.b
         [] pa.t = "number" /\ pb.t = "string" -> IsNumeric(pb.s) /\ DigitsToNat(pb.s) = pa.n
         [] pa.t = "string" /\ pb.t = "number" -> IsNumeric(pa.s) /\ DigitsToNat(pa.s) = pb.n
         [] pa.t # pb.t /\ "boolean" \in {pa.t, pb.t} ->
                /\ ~ToNumber(pa).nan /\ ~ToNumber(pb).nan
                /\ ToNumber(pa).n = ToNumber(pb).n
         [] OTHER -> FALSE

\* the characters of the modelled strings in the order of their code units
CodeOrder ==
    <<"$", "(", "*", ",", "-", ".", "/", "0", "1", "2", "3", "4", "5", "6", "7", "8", "9",
      "E", "G", "O", "P", "S", "T", "[", "^", "a", "b", "d", "e", "f", "g", "i", "l", "n",
      "r", "s", "t", "u", "x">>

CodeUnit(c) == CHOOSE i \in 1..Len(CodeOrder) : CodeOrder[i] = c

\* s < t for strings: by code units, a proper prefix being smaller
RECURSIVE LexLess(_, _)
LexLess(s, t) ==
    IF t = <<>> THEN FALSE
    ELSE IF s = <<>> THEN TRUE
    ELSE IF s[1] = t[1] THEN LexLess(Tail(s), Tail(t))
    ELSE CodeUnit(s[1]) < CodeUnit(t[1])

\* the abstract relational comparison a < b
LessThan(a, b) ==
    LET pa == ToPrimitive(a)
        pb == ToPrimitive(b)
        na == ToNumber(pa)
        nb == ToNumber(pb)
    IN IF pa.t = "string" /\ pb.t = "string" THEN LexLess(pa.s, pb.s)
       ELSE ~na.nan /\ ~nb.nan /\ na.n < nb.n

(***************************************************************************)
(* new RegExp(pattern, 'i').test(string) on patterns made of literal       *)
(* characters, ".", "*", a leading "^" and "$"; in the patterns used here  *)
(* no ")" and no "]" occurs, so that every "(" and "[" is unterminated     *)
(***************************************************************************)
\* the i flag: canonicalisation of a character
Fold(c) ==
    CASE c = "E" -> "e" [] c = "G" -> "g" [] c = "O" -> "o" [] c = "P" -> "p"
      [] c = "S" -> "s" [] c = "T" -> "t" [] OTHER -> c

\* new RegExp(pattern) throws a SyntaxError: unterminated group or character
\* class, or nothing to repeat
RegExpSyntaxError(p) ==
    \E i \in 1..Len(p) :
        \/ p[i] \in {"(", "["}
        \/ p[i] = "*" /\ (i = 1 \/ p[i - 1] \in {"*", "^", "$"})

CharMatches(c, x) == c = "." \/ Fold(c) = Fold(x)

\* does p match at the start of s
RECURSIVE MatchHere(_, _)
MatchHere(p, s) ==
    IF p = <<>> THEN TRUE
    ELSE IF Len(p) >= 2 /\ p[2] = "*"
    THEN \E k \in 0..Len(s) :
            /\ \A i \in 1..k : CharMatches(p[1], s[i])
            /\ MatchHere(SubSeq(p, 3, Len(p)), SubSeq(s, k + 1, Len(s)))
    ELSE IF p[1] = "$" THEN s = <<>> /\ MatchHere(Tail(p), s)
    ELSE /\ s # <<>>
         /\ CharMatches(p[1], s[1])
         /\ MatchHere(Tail(p), Tail(s))

RegExpTest(p, s) ==
    IF p # <<>> /\ p[1] = "^" THEN MatchHere(Tail(p), s)
    ELSE \E k \in 0..Len(s) : MatchHere(p, SubSeq(s, k + 1, Len(s)))

\* the pattern new RegExp(v) compiles: undefined gives the empty pattern
PatternOf(v) == IF v.t = "undefined" THEN <<>> ELSE ToStr(v)

\* a negation applied outside the try block: true when the pattern is invalid
TryRegExpNegateLast(ruleValue, actualValue, negated) ==
    negated # (IF RegExpSyntaxError(PatternOf(ruleValue)) THEN FALSE
               ELSE RegExpTest(PatternOf(ruleValue), ToStr(actualValue)))

\* try { return [!]new RegExp(ruleValue, 'i').test(actualValue) } catch (e)
\* { return false }
TryRegExp(ruleValue, actualValue, negated) ==
    IF RegExpSyntaxError(PatternOf(ruleValue)) THEN FALSE
    ELSE negated # RegExpTest(PatternOf(ruleValue), ToStr(actualValue))

ModelledOperators ==
    {"is_null", "is_not_null", "equals", "not_equals", "contains", "not_contains",
     "in", "not_in", "greater_than", "less_than", "matches", "not_matches"}

KnownOperators == ModelledOperators

checkCondition(actualValue, operator, ruleValue) ==
    CASE operator = "is_null" -> IsNullish(actualValue)
      [] operator = "is_not_null" -> ~IsNullish(actualValue)
      [] operator \notin {"is_null", "is_not_null"} /\ IsNullish(actualValue) -> FALSE
      [] operator = "equals" /\ ~IsNullish(actualValue) -> LooseEq(actualValue, ruleValue)
      [] operator = "not_equals" /\ ~IsNullish(actualValue) -> ~LooseEq(actualValue, ruleValue)
      [] operator = "contains" /\ ~IsNullish(actualValue) ->
            actualValue.t = "string" /\ Includes(actualValue.s, ToStr(ruleValue))
      [] operator = "not_contains" /\ ~IsNullish(actualValue) ->
            actualValue.t = "string" /\ ~Includes(actualValue.s, ToStr(ruleValue))
      [] operator = "in" /\ ~IsNullish(actualValue) ->
            ruleValue.t = "array" /\ \E i \in 1..Len(ruleValue.xs) : ruleValue.xs[i] = actualValue
      [] operator = "not_in" /\ ~IsNullish(actualValue) ->
            ruleValue.t = "array" /\ ~\E i \in 1..Len(ruleValue.xs) : ruleValue.xs[i] = actualValue
      [] operator = "greater_than" /\ ~IsNullish(actualValue) -> LessThan(ruleValue, actualValue)
      [] operator = "less_than" /\ ~IsNullish(actualValue) -> LessThan(actualValue, ruleValue)
      [] operator = "matches" /\ ~IsNullish(actualValue) ->
            TryRegExp(ruleValue, actualValue, FALSE)
      [] operator = "not_matches" /\ ~IsNullish(actualValue) ->
            TryRegExp(ruleValue, actualValue, TRUE)
      [] operator \notin KnownOperators /\ ~IsNullish(actualValue) -> FALSE

(***************************************************************************)
(* Requests and the field projector (utils.js getRequestData)              *)
(*                                                                         *)
(* A request payload is [method, path, headers, cf]: headers and cf are    *)
(* functions from the names that are present to their values.              *)
(***************************************************************************)
HeaderField(k) ==
    CASE k = "host" -> "request.headers.host"
      [] k = "content-length" -> "request.headers.content-length"
      [] k = "transfer-encoding" -> "request.headers.transfer-encoding"
      [] OTHER -> "request.headers.other"

\* headers[k] of the payload
HeaderOf(req, k) == IF k \in DOMAIN req.headers THEN Str(req.headers[k]) ELSE Undef

\* ToBoolean
Truthy(v) ==
    CASE v.t \in {"undefined", "null"} -> FALSE
      [] v.t = "string" -> v.s # <<>>
      [] v.t = "number" -> v.n # 0
      [] v.t = "boolean" -> v.b
      [] OTHER -> TRUE

CHUNKED == <<"c", "h", "u", "n", "k", "e", "d">>

\* !!(req.body && (headers['content-length'] > 0 ||
\* headers['transfer-encoding'] === 'chunked')): the payload the worker builds
\* has the fields url, method, headers and cf
HasBody(req) ==
    /\ "body" \in DOMAIN req
    /\ Truthy(req.body)
    /\ \/ LessThan(Num(0), HeaderOf(req, "content-length"))
       \/ HeaderOf(req, "transfer-encoding") = Str(CHUNKED)

getRequestData(req) ==
    LET base == [f \in {"request.method", "derived.uri.path", "request.cf.country",
                        "request.cf.threatScore", "derived.body.has_body",
                        "request.cf.botManagement.verifiedBot"} |->
                    CASE f = "request.method" -> Str(req.method)
                      [] f = "derived.uri.path" -> Str(req.path)
                      [] f = "derived.body.has_body" -> Bool(HasBody(req))
                      [] f = "request.cf.botManagement.verifiedBot" ->
                            IF "botManagement" \in DOMAIN req.cf
                            THEN req.cf["botManagement"].verifiedBot ELSE Undef
                      [] f = "request.cf.country" ->
                            IF "country" \in DOMAIN req.cf THEN req.cf["country"] ELSE Undef
                      [] f = "request.cf.threatScore" ->
                            IF "threatScore" \in DOMAIN req.cf THEN req.cf["threatScore"]
                            ELSE Num(0)]
        hdr == {HeaderField(k) : k \in DOMAIN req.headers}
    IN [f \in DOMAIN base \cup hdr |->
            IF f \in hdr
            THEN Str(req.headers[CHOOSE k \in DOMAIN req.headers : HeaderField(k) = f])
            ELSE base[f]]

\* names that every plain object inherits from Object.prototype
ObjectPrototypeNames ==
    {"constructor", "hasOwnProperty", "isPrototypeOf", "propertyIsEnumerable",
     "toLocaleString", "toString", "valueOf"}

\* requestData[match.field]: a field that was not projected reads as undefined,
\* unless the name is one that the object literal inherits
Field(requestData, f) ==
    IF f \in DOMAIN requestData THEN requestData[f]
    ELSE IF f \in ObjectPrototypeNames THEN Inherited
    ELSE Undef

\* the host header as the Durable Object reads it: wafRequestPayload.headers.host
HostOf(req) == IF "host" \in DOMAIN req.headers THEN Str(req.headers["host"]) ELSE Undef

\* an evaluator that looks at the first predicate only
evaluateExpressionFirst(expression, requestData) ==
    \/ Len(expression) = 0
    \/ checkCondition(Field(requestData, expression[1].field),
                      expression[1].operator, expression[1].value)

evaluateExpression(expression, requestData) ==
    \/ Len(expression) = 0
    \/ \A i \in 1..Len(expression) :
          checkCondition(Field(requestData, expression[i].field),
                         expression[i].operator, expression[i].value)

(***************************************************************************)
(* Rule selection: filter(r => r.enabled).sort((a, b) => a.priority -     *)
(* b.priority), then the first rule whose expression matches               *)
(***************************************************************************)
\* a selection that forgets the enabled flag
EnabledRowsAll(rows) == rows

EnabledRows(rows) == SelectSeq(rows, LAMBDA r : r.enabled)

\* a selection that scans the rows in table order, without sorting
SortByPriorityTableOrder(rows) == rows

\* Array.prototype.sort is stable: rows of equal priority keep their order
RECURSIVE SortByPriority(_)
SortByPriority(rows) ==
    IF rows = <<>> THEN <<>>
    ELSE LET rest == SortByPriority(Tail(rows))
             h == Head(rows)
             k == Cardinality({i \in 1..Len(rest) : rest[i].priority < h.priority})
         IN SubSeq(rest, 1, k) \o <<h>> \o SubSeq(rest, k + 1, Len(rest))

ActiveRules(rows) == SortByPriority(EnabledRows(rows))

Matching(active, requestData) ==
    {i \in 1..Len(active) : evaluateExpression(active[i].expression, requestData)}

\* index of the rule the for-loop returns on, 0 when the loop runs to its end
FirstMatch(active, requestData) ==
    IF Matching(active, requestData) = {} THEN 0
    ELSE CHOOSE i \in Matching(active, requestData) :
            \A j \in Matching(active, requestData) : i <= j

(***************************************************************************)
(* RouteRulesDO.handleEvaluate: the route tier, default block              *)
(***************************************************************************)
handleEvaluate(rows, req) ==
    LET requestData == getRequestData(req)
        activeRules == ActiveRules(rows)
        i == FirstMatch(activeRules, requestData)
    IN IF i # 0
       THEN [action |-> activeRules[i].action,
             matchedRuleId |-> activeRules[i].id,
             blockHttpCode |-> IF activeRules[i].block_http_code # 0
                               THEN activeRules[i].block_http_code ELSE 403]
       ELSE [action |-> "BLOCK", matchedRuleId |-> "default-route-block"]

(***************************************************************************)
(* GlobalRulesDO.findMatchingRoute                                         *)
(*                                                                         *)
(* The result is Return(route), Return(NoRoute) or Thrown: with no Host    *)
(* header incomingHost is undefined and incomingHost.endsWith raises a     *)
(* TypeError at the first wildcard route.                                  *)
(***************************************************************************)
NoRoute == [t |-> "null"]
Return(v) == [ok |-> TRUE, v |-> v]
Thrown == [ok |-> FALSE]

WILDCARD == <<"*", ".">>
DOT == <<".">>

\* a wildcard that also covers the bare domain
WildcardHitBare(route, incomingHost) ==
    /\ StartsWith(route.incomingHost, WILDCARD)
    /\ EndsWith(incomingHost.s, ReplaceFirst(route.incomingHost, WILDCARD, <<>>))

WildcardHit(route, incomingHost) ==
    /\ StartsWith(route.incomingHost, WILDCARD)
    /\ EndsWith(incomingHost.s, ReplaceFirst(route.incomingHost, WILDCARD, DOT))

\* a router that takes the first row that matches in any way, in one loop
findMatchingRouteOneLoop(incomingHost, rts) ==
    LET hits == {i \in 1..Len(rts) :
                    \/ Str(rts[i].incomingHost) = incomingHost
                    \/ ~IsNullish(incomingHost) /\ WildcardHit(rts[i], incomingHost)}
    IN IF hits = {} THEN Return(NoRoute)
       ELSE Return(rts[CHOOSE i \in hits : \A j \in hits : i <= j])

findMatchingRoute(incomingHost, rts) ==
    LET exact == {i \in 1..Len(rts) : Str(rts[i].incomingHost) = incomingHost}
        wild == {i \in 1..Len(rts) : StartsWith(rts[i].incomingHost, WILDCARD)}
    IN IF exact # {}
       THEN Return(rts[CHOOSE i \in exact : \A j \in exact : i <= j])
       ELSE IF wild = {} THEN Return(NoRoute)
       ELSE IF IsNullish(incomingHost) THEN Thrown
       ELSE LET hits == {i \in wild : WildcardHit(rts[i], incomingHost)}
            IN IF hits = {} THEN Return(NoRoute)
               ELSE Return(rts[CHOOSE i \in hits : \A j \in hits : i <= j])

(***************************************************************************)
(* GlobalRulesDO.evaluate, after loadCache: the global tier                *)
(***************************************************************************)
FORBIDDEN == [http_code |-> 403, content_type |-> "text/html", body |-> "<h1>Forbidden</h1>"]

\* this.cache.errorPages.find(p => p.http_code === (rule.block_http_code || 403))
FindErrorPage(pages, rule) ==
    LET code == IF rule.block_http_code # 0 THEN rule.block_http_code ELSE 403
        found == {i \in 1..Len(pages) : pages[i].http_code = code}
    IN IF found = {} THEN FORBIDDEN
       ELSE pages[CHOOSE i \in found : \A j \in found : i <= j]

evaluate(snapshot, req) ==
    LET requestData == getRequestData(req)
        activeGlobalRules == ActiveRules(snapshot.globalRules)
        i == FirstMatch(activeGlobalRules, requestData)
        matchedRoute == findMatchingRoute(HostOf(req), snapshot.routes)
        page == FindErrorPage(snapshot.errorPages, activeGlobalRules[i])
    IN IF ~matchedRoute.ok THEN Thrown
       ELSE IF i # 0
       THEN Return([action |-> activeGlobalRules[i].action,
                    matchedRuleId |-> activeGlobalRules[i].id,
                    blockResponse |-> [statusCode |-> page.http_code,
                                       contentType |-> page.content_type,
                                       body |-> page.body],
                    matchedRoute |-> matchedRoute.v])
       ELSE IF matchedRoute.v = NoRoute
       THEN Return([action |-> "NONE", matchedRoute |-> NoRoute])
       ELSE Return([action |-> "ALLOW", matchedRoute |-> matchedRoute.v])

(***************************************************************************)
(* The event sink and the audit sink: EventLogsDO and AuditLogsDO, each    *)
(* with an internal endpoint POST /log that inserts one row.  A row keeps  *)
(* what names the request or the write it records.                         *)
(***************************************************************************)
NoRecords == [events |-> <<>>, audit |-> <<>>]

\* no OtpDO object
NoOtp == [none |-> TRUE]

\* EventLogsDO.fetch, POST /log: INSERT INTO events
EventLog(records, logEntry) ==
    [records EXCEPT !.events =
        Append(@, [action |-> logEntry.action, rule_id |-> logEntry.ruleId,
                   context |-> logEntry.context, request |-> logEntry.request])]

\* AuditLogsDO.fetch, POST /log: 400 when a required field is missing, else
\* INSERT INTO audit_logs
AuditLog(records, logEntry) ==
    IF {"userId", "context", "action", "targetId"} \subseteq DOMAIN logEntry
    THEN [records EXCEPT !.audit =
            Append(@, [user_id |-> logEntry.userId, context |-> logEntry.context,
                       action |-> logEntry.action, target_id |-> logEntry.targetId])]
    ELSE records

(***************************************************************************)
(* Input sets                                                              *)
(***************************************************************************)
Actions == {"BLOCK", "CHALLENGE", "ALLOW", "LOG"}

RuleIds == {"a", "b", "c"}

\* the lexicographic order of the rule ids
IdRank(id) == CASE id = "a" -> 1 [] id = "b" -> 2 [] id = "c" -> 3

AnyRequest == <<>>
MethodIsGet == <<[field |-> "request.method", operator |-> "equals", value |-> Str(GET)]>>

\* a row of a rules table; block_http_code 0 stands for NULL
Rule(id, enabled, action, priority, expression, code) ==
    [id |-> id, enabled |-> enabled, action |-> action, priority |-> priority,
     expression |-> expression, block_http_code |-> code]

HostABE == <<"a", ".", "b", ".", "e">>
HostBE == <<"b", ".", "e">>
HostE == <<"e">>
HostXE == <<"x", "e">>

StarE == <<"*", ".", "e">>
StarBE == <<"*", ".", "b", ".", "e">>
AStarE == <<"a", ".", "*", ".", "e">>

\* a row of the routes table
Route(id, host, type, url, service, enabled) ==
    [id |-> id, incomingHost |-> host, origin_type |-> type, origin_url |-> url,
     origin_service_name |-> service, enabled |-> enabled]

Request(method, path, headers) == [method |-> method, path |-> path, headers |-> headers, cf |-> <<>>]

WithHost(h) == [k \in {"host"} |-> h]
NoHeaders == <<>>

\* sequences of at most n elements of S
SeqUpTo(S, n) == UNION {[1..k -> S] : k \in 0..n}

DistinctBy(q, Key(_)) == \A i, j \in 1..Len(q) : i # j => Key(q[i]) # Key(q[j])

(***************************************************************************)
(* SpecEval: the evaluation functions applied to enumerated inputs         *)
(***************************************************************************)
\* each id carries one action, so that the outcome names the rule by both
EvalAction(id) == CASE id = "a" -> "ALLOW" [] id = "b" -> "BLOCK" [] id = "c" -> "LOG"

EvalRuleRows ==
    {Rule(id, en, EvalAction(id), pr, ex, 0) :
        id \in RuleIds, en \in BOOLEAN, pr \in 1..MaxPriority,
        ex \in {AnyRequest, MethodIsGet}}

\* id is the primary key of a rules table
EvalRuleTables == {q \in SeqUpTo(EvalRuleRows, MaxRules) : DistinctBy(q, LAMBDA r : r.id)}

EvalRouteRows ==
    {Route("route-1", HostABE, "url", "https://origin", "", TRUE),
     Route("route-2", StarE, "url", "https://origin", "", TRUE),
     Route("route-3", StarBE, "url", "https://origin", "", TRUE),
     Route("route-4", HostBE, "url", "https://origin", "", TRUE),
     Route("route-5", AStarE, "url", "https://origin", "", TRUE)}

\* incominghost is UNIQUE in the routes table
EvalRouteTables ==
    {q \in SeqUpTo(EvalRouteRows, MaxRoutes) : DistinctBy(q, LAMBDA r : r.incomingHost)}

EvalHosts == {Str(HostABE), Str(HostBE), Str(HostE), Str(HostXE), Undef}

EvalRequests == {Request(m, <<"/">>, WithHost(HostABE)) : m \in {GET, POST}}

\* the tables of rules, of error pages and of routes the whole pipeline is run on
FetchRuleTables ==
    {<<>>} \cup {<<Rule("a", TRUE, ac, 1, ex, code)>> :
                    ac \in Actions, ex \in {AnyRequest, MethodIsGet}, code \in {0, 451}}

ErrorPage(code, body) == [http_code |-> code, content_type |-> "text/plain", body |-> body]

FetchErrorPages ==
    {<<>>, <<ErrorPage(451, "Unavailable")>>, <<ErrorPage(403, "Denied")>>}

FetchRouteTables ==
    {<<>>,
     <<Route("route-1", HostABE, "url", "https://origin", "", TRUE)>>,
     <<Route("route-1", HostABE, "url", "", "", TRUE)>>,
     <<Route("route-1", HostABE, "service", "", "ORIGIN", TRUE)>>,
     <<Route("route-1", HostABE, "service", "https://origin", "MISSING", TRUE)>>,
     <<Route("route-2", StarE, "url", "https://origin", "", TRUE)>>,
     <<Route("route-1", HostABE, "url", "https://origin", "", FALSE)>>}

\* the requests of the pipeline: with a Host header and without one
FetchRequests == EvalRequests \cup {Request(GET, <<"/">>, NoHeaders)}

\* requests with and without the cf properties that rules read
CondRequests ==
    {Request(GET, <<"/">>, WithHost(HostABE)),
     [Request(GET, <<"/">>, WithHost(HostABE)) EXCEPT
        !.cf = [k \in {"country", "threatScore"} |->
                    IF k = "country" THEN Str(<<"E", "S">>) ELSE Num(10)]],
     [Request(POST, <<"/">>, [k \in {"host", "content-length"} |->
                                IF k = "host" THEN HostABE ELSE <<"5">>]) EXCEPT
        !.cf = [k \in {"botManagement"} |-> [verifiedBot |-> Bool(TRUE)]]],
     Request(POST, <<"/">>, [k \in {"host", "transfer-encoding"} |->
                                IF k = "host" THEN HostABE ELSE CHUNKED])}

\* fields that are projected, fields that may be absent, and names outside
\* the vocabulary
CondFields ==
    {"request.method", "request.cf.country", "request.cf.threatScore",
     "request.headers.content-length", "request.unknown", "constructor",
     "derived.body.has_body", "request.cf.botManagement.verifiedBot"}

CondOperators == KnownOperators \cup {"starts_with"}

CondValues ==
    {Str(GET), Str(<<"g", "e", "t">>), Str(<<"^", "G", ".", "*", "$">>),
     Str(<<"E", "*", "S">>), Str(<<"(">>), Str(<<"*">>), Str(<<"[", "a">>),
     Str(<<"9">>), Str(<<"1", "0">>), Num(0), Num(5),
     Arr(<<Str(GET)>>), Arr(<<Str(<<"E", "S">>), Num(10)>>),
     Arr(<<Str(<<"1", "0">>)>>), Str(<<"0", "1", "0">>), Str(<<"1">>),
     Str(<<"t", "r", "u", "e">>)}

Predicate(f, op, v) == [field |-> f, operator |-> op, value |-> v]

MaxConds == 3       \* predicates of an expression

\* predicates on the method of a GET request: true, false, on an absent
\* field, with a pattern that does not compile, and a true negation
ExprPredicates ==
    {Predicate("request.method", "equals", Str(GET)),
     Predicate("request.method", "equals", Str(POST)),
     Predicate("request.unknown", "not_equals", Str(GET)),
     Predicate("request.method", "not_matches", Str(<<"(">>)),
     Predicate("request.method", "not_matches", Str(<<"^", "P">>))}

\* patterns that new RegExp rejects with a SyntaxError
InvalidPatterns == {Str(<<"(">>), Str(<<"*">>), Str(<<"[", "a">>)}

\* a table whose first rule in priority order has a regular-expression
\* predicate with such a pattern, alone or followed by a rule that matches
RegexRuleTables ==
    UNION {{<<Rule("b", TRUE, "BLOCK", 1, <<Predicate("request.method", op, v)>>, 0)>>,
            <<Rule("b", TRUE, "BLOCK", 1, <<Predicate("request.method", op, v)>>, 0),
              Rule("a", TRUE, "ALLOW", 2, AnyRequest, 0)>>} :
                op \in {"matches", "not_matches"}, v \in InvalidPatterns}

\* inputs of the whole WAF pipeline: both rule tables, the routes, the error pages
FetchInputs ==
    {[kind |-> "fetch", rules |-> q, errorPages |-> ep, routes |-> rt, routeRules |-> rq,
      req |-> r] :
        q \in FetchRuleTables, ep \in FetchErrorPages, rt \in FetchRouteTables,
        rq \in FetchRuleTables, r \in FetchRequests}

EvalInputs ==
    {[kind |-> "route", rules |-> q, req |-> r] :
        q \in EvalRuleTables \cup RegexRuleTables, r \in EvalRequests}
    \cup
    {[kind |-> "cond", match |-> Predicate(f, op, v), req |-> r] :
        f \in CondFields, op \in CondOperators, v \in CondValues, r \in CondRequests}
    \cup
    {[kind |-> "expr", expression |-> e, req |-> r] :
        e \in SeqUpTo(ExprPredicates, MaxConds), r \in CondRequests}
    \cup
    {[kind |-> "global", rules |-> q, req |-> r, routes |-> rt] :
        q \in EvalRuleTables, r \in EvalRequests,
        rt \in {<<>>, <<Route("route-2", StarE, "url", "https://origin", "", TRUE)>>}}
    \cup
    {[kind |-> "host", host |-> h, routes |-> rt] : h \in EvalHosts, rt \in EvalRouteTables}

NotApplied == [done |-> FALSE]
Applied(r) == [done |-> TRUE, r |-> r]

ApplyHandleEvaluate ==
    /\ evalIn.kind = "route" /\ ~evalOut.done
    /\ evalOut' = Applied(handleEvaluate(evalIn.rules, evalIn.req))
    /\ UNCHANGED <<otp, sinks, config, build, evalIn, routes, errorPages, db, cache, tasks, ver, ack, started, writes>>

ApplyEvaluate ==
    /\ evalIn.kind = "global" /\ ~evalOut.done
    /\ evalOut' = Applied(evaluate([globalRules |-> evalIn.rules, routes |-> evalIn.routes,
                                    errorPages |-> <<>>], evalIn.req))
    /\ UNCHANGED <<otp, sinks, config, build, evalIn, routes, errorPages, db, cache, tasks, ver, ack, started, writes>>

ApplyFindMatchingRoute ==
    /\ evalIn.kind = "host" /\ ~evalOut.done
    /\ evalOut' = Applied(findMatchingRoute(evalIn.host, evalIn.routes))
    /\ UNCHANGED <<otp, sinks, config, build, evalIn, routes, errorPages, db, cache, tasks, ver, ack, started, writes>>

InitEval ==
    /\ evalIn \in EvalInputs
    /\ evalOut = NotApplied
    /\ routes = <<>> /\ errorPages = <<>>
    /\ db = <<>> /\ cache = <<>> /\ tasks = <<>>
    /\ ver = <<>> /\ ack = <<>> /\ started = 0 /\ writes = 0
    /\ config = <<>> /\ build = "" /\ sinks = NoRecords /\ otp = NoOtp

(***************************************************************************)
(* Spec: the worker, the global store and one route store, with handlers   *)
(* interleaving at their suspension points                                 *)
(***************************************************************************)
GLOBAL == "global"
RouteStores == {"route-1"}
Stores == {GLOBAL} \cup RouteStores

TaskIds == 1..MaxTasks

\* service bindings present in env
EnvBindings == {"ORIGIN"}

NoCache == [loaded |-> FALSE]
None == [none |-> TRUE]

\* history: the version of a store's rules throughout an evaluation
NotQuiet == -1

\* the evaluation that started when write startAck had been acknowledged ends
\* now: the version of the rules of s if no write has committed since the last
\* acknowledged one, else NotQuiet
QuietAt(s, startAck) == IF startAck = ver[s] THEN ver[s] ELSE NotQuiet

Idle ==
    [kind |-> "idle", pc |-> "idle", req |-> None, store |-> GLOBAL, loaded |-> NoCache,
     gdec |-> None, rdec |-> None, resp |-> None, startAck |-> 0, fresh |-> TRUE,
     myVer |-> 0, gAt |-> NotQuiet, rAt |-> NotQuiet]

\* SELECT * FROM routes / global_rules / error_pages; ver tags the snapshot (history)
GlobalSnapshot ==
    [loaded |-> TRUE, routes |-> routes, globalRules |-> db[GLOBAL],
     errorPages |-> errorPages, ver |-> ver[GLOBAL]]

\* SELECT * FROM route_rules
RouteSnapshot(s) == [loaded |-> TRUE, rows |-> db[s], ver |-> ver[s]]

\* the rows a snapshot holds, whichever store it belongs to
RowsOf(s, snap) == IF s = GLOBAL THEN snap.globalRules ELSE snap.rows

\* a read reflects every acknowledged write: the view is no older than the last
\* write acknowledged before the read started, or it equals the persisted rows
Reflects(s, startAck, viewVer, viewRows) ==
    startAck = 0 \/ viewVer >= startAck \/ viewRows = db[s]

Response(kind, status, contentType, body) ==
    [kind |-> kind, status |-> status, contentType |-> contentType, body |-> body]

(***************************************************************************)
(* Inputs of Spec                                                          *)
(***************************************************************************)
SysRuleRows == {Rule("a", TRUE, ac, 1, AnyRequest, 0) : ac \in Actions}

SysRuleTables == {<<>>} \cup {<<r>> : r \in SysRuleRows}

SysRouteTables ==
    {<<Route("route-1", HostABE, "url", "https://origin", "", TRUE)>>,
     <<Route("route-1", StarE, "service", "", "ORIGIN", TRUE)>>,
     <<Route("route-1", HostABE, "service", "", "MISSING", TRUE)>>}

SysRequests ==
    {Request(GET, <<"/">>, WithHost(HostABE)),
     Request(GET, <<"/", "x">>, WithHost(HostXE)),
     Request(GET, <<"/", "x">>, NoHeaders)}

\* a configuration API request: store, method, the rule id in the path ("" for
\* the collection path) and the rule in the body
ApiRequest(store, method, target, rule) ==
    [store |-> store, method |-> method, target |-> target, rule |-> rule]

NoRule == Rule("", FALSE, "BLOCK", 0, AnyRequest, 0)

\* the rules a write request carries
SysWrittenRows == {Rule("a", TRUE, ac, 1, AnyRequest, 0) : ac \in {"ALLOW", "BLOCK"}}

SysApiRequests ==
    {ApiRequest(s, "GET", "", NoRule) : s \in Stores}
    \cup {ApiRequest(s, "POST", "", r) : s \in Stores, r \in SysWrittenRows}
    \cup {ApiRequest(s, "PUT", "a", r) : s \in Stores, r \in SysWrittenRows}
    \cup {ApiRequest(s, "DELETE", "a", NoRule) : s \in Stores}

(***************************************************************************)
(* SQL statements of handleRulesApi                                        *)
(***************************************************************************)
HasId(rows, id) == \E i \in 1..Len(rows) : rows[i].id = id

\* INSERT INTO ... VALUES (...): id is the primary key
Insert(rows, rule) == Append(rows, rule)

\* UPDATE ... SET every column but id ... WHERE id = ?
Update(rows, ruleId, rule) ==
    [i \in 1..Len(rows) |-> IF rows[i].id = ruleId THEN [rule EXCEPT !.id = ruleId] ELSE rows[i]]

\* DELETE FROM ... WHERE id = ?
Delete(rows, ruleId) == SelectSeq(rows, LAMBDA r : r.id # ruleId)

\* the statement a write request runs
ExecSql(rows, method, ruleId, rule) ==
    CASE method = "POST" -> Insert(rows, rule)
      [] method = "PUT" -> Update(rows, ruleId, rule)
      [] method = "DELETE" -> Delete(rows, ruleId)

\* GlobalRulesDO: url.pathname.split('/').pop()
GlobalRuleId(target) == IF target = "" THEN "rules" ELSE target

\* RouteRulesDO: url.pathname.split('/').slice(-2, -1)[0] of /api/routes/<route id>/rules
RouteRuleId(s) == s

(***************************************************************************)
(* Effects: what one synchronous stretch of a handler does to its task,    *)
(* to this.cache and to the rules table of its store                       *)
(***************************************************************************)
Effect(task, cacheS, rows, wrote) == [task |-> task, cache |-> cacheS, rows |-> rows, wrote |-> wrote]

\* a deployment whose stores share one rules table and one cache
ApplyShared(t, s, e) ==
    LET changed == e.rows # db[s]
        newVer == IF changed THEN ver[s] + 1 ELSE ver[s]
    IN /\ tasks' = [tasks EXCEPT ![t] =
                        IF e.wrote THEN [e.task EXCEPT !.myVer = IF changed THEN newVer ELSE 0]
                        ELSE e.task]
       /\ cache' = [o \in Stores |-> e.cache]
       /\ db' = [o \in Stores |-> e.rows]
       /\ ver' = [ver EXCEPT ![s] = newVer]

\* each Durable Object has its own this.cache and its own storage
Apply(t, s, e) ==
    LET changed == e.rows # db[s]
        newVer == IF changed THEN ver[s] + 1 ELSE ver[s]
    IN /\ tasks' = [tasks EXCEPT ![t] =
                        IF e.wrote THEN [e.task EXCEPT !.myVer = IF changed THEN newVer ELSE 0]
                        ELSE e.task]
       /\ cache' = [cache EXCEPT ![s] = e.cache]
       /\ db' = [db EXCEPT ![s] = e.rows]
       /\ ver' = [ver EXCEPT ![s] = newVer]

\* GlobalRulesDO.evaluate once this.cache is set
GlobalEvaluated(task, snap) ==
    [task EXCEPT !.pc = "g_done",
                 !.gdec = evaluate(snap, task.req),
                 !.gAt = QuietAt(GLOBAL, task.startAck),
                 !.fresh = task.fresh /\ Reflects(GLOBAL, task.startAck, snap.ver, snap.globalRules)]

\* GET /api/global/config once this.cache is set
GlobalConfigServed(task, snap) ==
    [task EXCEPT !.pc = "done",
                 !.resp = Response("config", 200, "application/json", snap.globalRules),
                 !.fresh = task.fresh /\ Reflects(GLOBAL, task.startAck, snap.ver, snap.globalRules)]

\* GlobalRulesDO.fetch up to its first suspension point
GlobalFetch(task) ==
    LET r == task.req
        c == IF r.method # "GET" THEN NoCache ELSE cache[GLOBAL]
    IN IF r.method = "GET"
       THEN IF c.loaded
            THEN Effect(GlobalConfigServed(task, c), c, db[GLOBAL], FALSE)
            ELSE Effect([task EXCEPT !.pc = "g_loading", !.loaded = GlobalSnapshot],
                        c, db[GLOBAL], FALSE)
       ELSE IF r.method \in {"POST", "PUT"}
       THEN Effect([task EXCEPT !.pc = "w_json"], c, db[GLOBAL], FALSE)
       ELSE Effect([task EXCEPT !.pc = "w_sql"], c,
                   ExecSql(db[GLOBAL], r.method, GlobalRuleId(r.target), r.rule), TRUE)

\* RouteRulesDO.fetch after `if (!this.cache) await this.loadCache()`, up to its
\* next suspension point; c is this.cache, which is set here
RouteDispatch(task, c) ==
    LET r == task.req
        s == task.store
        isWrite == task.kind = "api" /\ r.method # "GET"
        c2 == IF isWrite THEN NoCache ELSE c
    IN IF task.kind = "waf"
       THEN Effect([task EXCEPT !.pc = "r_json"], c2, db[s], FALSE)
       ELSE IF r.target # ""
       THEN Effect([task EXCEPT !.pc = "done",
                                !.resp = Response("not_found", 404, "text/plain",
                                                  "Not found in RouteRulesDO")],
                   c2, db[s], FALSE)
       ELSE IF r.method = "GET"
       THEN Effect([task EXCEPT !.pc = "done",
                                !.resp = Response("config", 200, "application/json", c.rows),
                                !.fresh = task.fresh /\ Reflects(s, task.startAck, c.ver, c.rows)],
                   c2, db[s], FALSE)
       ELSE IF r.method \in {"POST", "PUT"}
       THEN Effect([task EXCEPT !.pc = "w_json"], c2, db[s], FALSE)
       ELSE Effect([task EXCEPT !.pc = "w_sql"], c2,
                   ExecSql(db[s], r.method, RouteRuleId(s), r.rule), TRUE)

\* RouteRulesDO.fetch from its entry
RouteFetch(task) ==
    LET s == task.store
    IN IF ~cache[s].loaded
       THEN Effect([task EXCEPT !.pc = "r_loading", !.loaded = RouteSnapshot(s)],
                   cache[s], db[s], FALSE)
       ELSE RouteDispatch(task, cache[s])

(***************************************************************************)
(* The worker's two tests on the decisions it gets                         *)
(***************************************************************************)
\* a worker that routes on any decision that carries a route
RoutesOnAnyAction(d) == d.matchedRoute # NoRoute

\* worker.js line 107: globalDecision.action === 'ALLOW' && globalDecision.matchedRoute
RoutesOn(d) == d.action = "ALLOW" /\ d.matchedRoute # NoRoute

\* a worker that forwards whatever is not a BLOCK
AdmitsNotBlock(rd) == rd.action # "BLOCK"

\* worker.js line 112: routeDecision.action === 'ALLOW' || routeDecision.action === 'LOG'
Admits(rd) == rd.action \in {"ALLOW", "LOG"}

\* a worker for which only BLOCK ends the pipeline at the global tier
TerminalBlockOnly(d) == d.action = "BLOCK"

\* worker.js line 99: globalDecision.action === 'BLOCK' || ... === 'CHALLENGE'
Terminal(d) == d.action \in {"BLOCK", "CHALLENGE"}

\* new Response(globalDecision.blockResponse.body, {status, headers})
BlockResponse(b) == Response("block", b.statusCode, b.contentType, b.body)

\* the worker goes on to the route store
ToRoute == [kind |-> "route"]

\* worker.js lines 98-110 and 128-137: what the worker does with globalDecision
\* (d is Return(decision) or Thrown)
respondToGlobal(d, req) ==
    IF ~d.ok
    THEN Response("error", 500, "", "TypeError")
    ELSE IF Terminal(d.v)
    THEN BlockResponse(d.v.blockResponse)
    ELSE IF RoutesOn(d.v)
    THEN ToRoute
    ELSE IF req.path = <<"/">>
    THEN Response("landing", 200, "text/html", "/wafu-landing.html")
    ELSE Response("no_route", 404, "text/plain", "WAFu: No route configured")

\* a worker that calls whatever service a route names
ServiceBoundAlways(name) == TRUE

\* worker.js line 113: env[route.origin_service_name] is truthy
ServiceBound(name) == name \in EnvBindings

\* worker.js lines 112-125: what the worker does with routeDecision; gd is the
\* global decision, which has no blockResponse when no global rule matched
respondToRoute(gd, rd) ==
    LET route == gd.matchedRoute
    IN IF Admits(rd)
       THEN IF route.origin_type = "service" /\ ServiceBound(route.origin_service_name)
            THEN Response("origin", 200, "", route.origin_service_name)
            ELSE IF route.origin_type = "url" /\ route.origin_url # ""
            THEN Response("origin", 200, "", route.origin_url)
            ELSE Response("misconfig", 500, "text/plain", "WAFu Error")
       ELSE IF "blockResponse" \in DOMAIN gd
       THEN BlockResponse(gd.blockResponse)
       ELSE Response("error", 500, "", "TypeError")

(***************************************************************************)
(* Actions of Spec                                                         *)
(***************************************************************************)
\* a new invocation takes the lowest slot that is not in flight
Free(t) ==
    /\ tasks[t].pc \in {"idle", "done"}
    /\ \A u \in TaskIds : u < t => tasks[u].pc \notin {"idle", "done"}
    /\ started < MaxStarted

\* worker.js ROUTE 4: build the payload and call globalDO.evaluate, which runs
\* loadCache: return at once when this.cache is set, else issue the SELECTs
WafStart(t, req) ==
    /\ Free(t)
    /\ started' = started + 1
    /\ LET task == [Idle EXCEPT !.kind = "waf", !.req = req, !.store = GLOBAL,
                                !.startAck = ack[GLOBAL]]
       IN IF cache[GLOBAL].loaded
          THEN Apply(t, GLOBAL, Effect(GlobalEvaluated(task, cache[GLOBAL]),
                                       cache[GLOBAL], db[GLOBAL], FALSE))
          ELSE Apply(t, GLOBAL, Effect([task EXCEPT !.pc = "g_loading", !.loaded = GlobalSnapshot],
                                       cache[GLOBAL], db[GLOBAL], FALSE))
    /\ UNCHANGED <<otp, sinks, config, build, evalIn, evalOut, routes, errorPages, ack, writes>>

\* worker.js ROUTE 3: hand the API request to the store's fetch
ApiStart(t, req) ==
    /\ Free(t)
    /\ req.method # "GET" => writes < MaxWrites
    /\ writes' = IF req.method # "GET" THEN writes + 1 ELSE writes
    /\ started' = started + 1
    /\ LET task == [Idle EXCEPT !.kind = "api", !.req = req, !.store = req.store,
                                !.startAck = ack[req.store]]
       IN IF req.store = GLOBAL
          THEN Apply(t, GLOBAL, GlobalFetch(task))
          ELSE Apply(t, req.store, RouteFetch(task))
    /\ UNCHANGED <<otp, sinks, config, build, evalIn, evalOut, routes, errorPages, ack>>

\* GlobalRulesDO.loadCache after its await: this.cache = {...}; the caller goes on
GlobalLoadCacheDone(t) ==
    /\ tasks[t].pc = "g_loading"
    /\ LET snap == tasks[t].loaded
       IN Apply(t, GLOBAL,
                Effect(IF tasks[t].kind = "waf" THEN GlobalEvaluated(tasks[t], snap)
                       ELSE GlobalConfigServed(tasks[t], snap),
                       snap, db[GLOBAL], FALSE))
    /\ UNCHANGED <<otp, sinks, config, build, evalIn, evalOut, routes, errorPages, ack, started, writes>>

\* worker.js lines 98-110 and 128-137: what the worker does with globalDecision
WafAfterGlobal(t) ==
    /\ tasks[t].pc = "g_done"
    /\ LET d == tasks[t].gdec
           r == respondToGlobal(d, tasks[t].req)
       IN tasks' = [tasks EXCEPT ![t] =
            IF r = ToRoute
            THEN [tasks[t] EXCEPT !.pc = "r_enter", !.store = d.v.matchedRoute.id]
            ELSE [tasks[t] EXCEPT !.pc = "done", !.resp = r]]
    /\ UNCHANGED <<otp, sinks, config, build, evalIn, evalOut, routes, errorPages, db, cache, ver, ack, started, writes>>

\* the route store starts on the worker's evaluation request
RouteFetchEnter(t) ==
    /\ tasks[t].pc = "r_enter"
    /\ Apply(t, tasks[t].store, RouteFetch([tasks[t] EXCEPT !.startAck = ack[tasks[t].store]]))
    /\ UNCHANGED <<otp, sinks, config, build, evalIn, evalOut, routes, errorPages, ack, started, writes>>

\* RouteRulesDO.loadCache after its await: this.cache = results; fetch goes on
RouteLoadCacheDone(t) ==
    /\ tasks[t].pc = "r_loading"
    /\ Apply(t, tasks[t].store, RouteDispatch(tasks[t], tasks[t].loaded))
    /\ UNCHANGED <<otp, sinks, config, build, evalIn, evalOut, routes, errorPages, ack, started, writes>>

\* RouteRulesDO.handleEvaluate after `await request.json()`
RouteHandleEvaluate(t) ==
    /\ tasks[t].pc = "r_json"
    /\ LET s == tasks[t].store
           rows == IF cache[s].loaded THEN cache[s].rows ELSE <<>>
           viewVer == IF cache[s].loaded THEN cache[s].ver ELSE -1
       IN tasks' = [tasks EXCEPT ![t] =
            [tasks[t] EXCEPT !.pc = "r_done",
                             !.rdec = handleEvaluate(rows, tasks[t].req),
                             !.rAt = QuietAt(s, tasks[t].startAck),
                             !.fresh = tasks[t].fresh /\ Reflects(s, tasks[t].startAck, viewVer, rows)]]
    /\ UNCHANGED <<otp, sinks, config, build, evalIn, evalOut, routes, errorPages, db, cache, ver, ack, started, writes>>

\* worker.js lines 112-125: what the worker does with routeDecision
WafAfterRoute(t) ==
    /\ tasks[t].pc = "r_done"
    /\ tasks' = [tasks EXCEPT ![t] =
            [tasks[t] EXCEPT !.pc = "done",
                             !.resp = respondToRoute(tasks[t].gdec.v, tasks[t].rdec)]]
    /\ UNCHANGED <<otp, sinks, config, build, evalIn, evalOut, routes, errorPages, db, cache, ver, ack, started, writes>>

\* handleRulesApi POST/PUT after `await request.json()`: run the statement
WriteSql(t) ==
    /\ tasks[t].pc = "w_json"
    /\ LET s == tasks[t].store
           r == tasks[t].req
           ruleId == IF s = GLOBAL THEN GlobalRuleId(r.target) ELSE RouteRuleId(s)
       IN IF r.method = "POST" /\ HasId(db[s], r.rule.id)
          THEN \* the primary key rejects the row: the handler ends in an exception
               Apply(t, s, Effect([tasks[t] EXCEPT !.pc = "done",
                                                   !.resp = Response("error", 500, "", "SQLITE_CONSTRAINT")],
                                  cache[s], db[s], FALSE))
          ELSE Apply(t, s, Effect([tasks[t] EXCEPT !.pc = "w_sql"], cache[s],
                                  ExecSql(db[s], r.method, ruleId, r.rule), TRUE))
    /\ UNCHANGED <<otp, sinks, config, build, evalIn, evalOut, routes, errorPages, ack, started, writes>>

\* handleRulesApi after the statement's await: success goes back to the caller
WriteReturn(t) ==
    /\ tasks[t].pc = "w_sql"
    /\ LET s == tasks[t].store
           status == IF tasks[t].req.method = "POST" THEN 201 ELSE 200
       IN /\ tasks' = [tasks EXCEPT ![t] =
                [tasks[t] EXCEPT !.pc = "done",
                                 !.resp = Response("written", status, "", tasks[t].req.method)]]
          /\ ack' = [ack EXCEPT ![s] = IF tasks[t].myVer > ack[s] THEN tasks[t].myVer ELSE ack[s]]
    /\ UNCHANGED <<otp, sinks, config, build, evalIn, evalOut, routes, errorPages, db, cache, ver, started, writes>>

Init ==
    /\ evalIn = None /\ evalOut = NotApplied
    /\ routes \in SysRouteTables
    /\ errorPages = <<>>
    /\ db \in [Stores -> SysRuleTables]
    /\ cache = [s \in Stores |-> NoCache]
    /\ tasks = [t \in TaskIds |-> Idle]
    /\ ver = [s \in Stores |-> 0]
    /\ ack = [s \in Stores |-> 0]
    /\ started = 0 /\ writes = 0
    /\ config = <<>> /\ build = "" /\ sinks = NoRecords /\ otp = NoOtp

Next ==
    \/ \E t \in TaskIds, req \in SysRequests : WafStart(t, req)
    \/ \E t \in TaskIds, req \in SysApiRequests : ApiStart(t, req)
    \/ \E t \in TaskIds : GlobalLoadCacheDone(t)
    \/ \E t \in TaskIds : WafAfterGlobal(t)
    \/ \E t \in TaskIds : RouteFetchEnter(t)
    \/ \E t \in TaskIds : RouteLoadCacheDone(t)
    \/ \E t \in TaskIds : RouteHandleEvaluate(t)
    \/ \E t \in TaskIds : WafAfterRoute(t)
    \/ \E t \in TaskIds : WriteSql(t)
    \/ \E t \in TaskIds : WriteReturn(t)

Spec == Init /\ [][Next]_vars

(***************************************************************************)
(* SpecFetch: the whole pipeline of worker.js as a function of             *)
(* the configuration and the request (both caches loaded, no write)        *)
(***************************************************************************)
\* worker.js ROUTE 4: globalDO.evaluate, then routeDO.evaluate when the worker
\* routes on the global decision; gdec and rdec are the two decisions
\* worker.js lines 98-137 on the two decisions: rd is consulted only when the
\* worker routes on d
respond(d, rd, req) ==
    LET g == respondToGlobal(d, req)
    IN IF g = ToRoute
       THEN [resp |-> respondToRoute(d.v, rd), gdec |-> d, rdec |-> rd]
       ELSE [resp |-> g, gdec |-> d, rdec |-> None]

fetchWaf(snapshot, routeRules, req) ==
    respond(evaluate(snapshot, req), handleEvaluate(routeRules, req), req)

FetchSnapshot(in) ==
    [globalRules |-> in.rules, routes |-> in.routes, errorPages |-> in.errorPages]

ApplyFetch ==
    /\ evalIn.kind = "fetch" /\ ~evalOut.done
    /\ evalOut' = Applied(fetchWaf(FetchSnapshot(evalIn), evalIn.routeRules, evalIn.req))
    /\ UNCHANGED <<otp, sinks, config, build, evalIn, routes, errorPages, db, cache, tasks, ver, ack, started, writes>>

\* _checkCondition(requestData[match.field], match.operator, match.value)
ApplyCheckCondition ==
    /\ evalIn.kind = "cond" /\ ~evalOut.done
    /\ LET actualValue == Field(getRequestData(evalIn.req), evalIn.match.field)
       IN evalOut' = Applied([actualValue |-> actualValue,
                              result |-> checkCondition(actualValue, evalIn.match.operator,
                                                        evalIn.match.value)])
    /\ UNCHANGED <<otp, sinks, config, build, evalIn, routes, errorPages, db, cache, tasks, ver, ack, started, writes>>

ApplyEvaluateExpression ==
    /\ evalIn.kind = "expr" /\ ~evalOut.done
    /\ evalOut' = Applied(evaluateExpression(evalIn.expression, getRequestData(evalIn.req)))
    /\ UNCHANGED <<otp, sinks, config, build, evalIn, routes, errorPages, db, cache, tasks, ver, ack, started, writes>>

NextEval ==
    \/ ApplyHandleEvaluate \/ ApplyEvaluate \/ ApplyFindMatchingRoute
    \/ ApplyCheckCondition \/ ApplyEvaluateExpression

SpecEval == InitEval /\ [][NextEval]_vars

\* the pipeline as a function of its inputs
InitFetch ==
    /\ evalIn \in FetchInputs
    /\ evalOut = NotApplied
    /\ routes = <<>> /\ errorPages = <<>>
    /\ db = <<>> /\ cache = <<>> /\ tasks = <<>>
    /\ ver = <<>> /\ ack = <<>> /\ started = 0 /\ writes = 0
    /\ config = <<>> /\ build = "" /\ sinks = NoRecords /\ otp = NoOtp

NextFetch == ApplyFetch

SpecFetch == InitFetch /\ [][NextFetch]_vars

(***************************************************************************)
(* Claims on the pipeline (Spec)                                           *)
(***************************************************************************)
WafTasks == {t \in TaskIds : tasks[t].kind = "waf"}

RoutePcs == {"r_enter", "r_loading", "r_json", "r_done"}

GlobalReturned(t) == tasks[t].gdec # None
RouteReturned(t) == tasks[t].rdec # None

\* the global decision names a route and carries ALLOW
GlobalAdmitted(t) ==
    /\ GlobalReturned(t) /\ tasks[t].gdec.ok
    /\ tasks[t].gdec.v.action = "ALLOW"
    /\ tasks[t].gdec.v.matchedRoute # NoRoute

ForwardedToOrigin(t) == tasks[t].resp # None /\ tasks[t].resp.kind = "origin"

\* C1: a request is forwarded to an origin only if global evaluation returned
\* ALLOW with a matched route and the evaluation in that route's store returned
\* ALLOW or LOG; in every other case there is no origin call.
C1_OriginOnlyWhenAdmitted ==
    \A t \in WafTasks :
        ForwardedToOrigin(t) =>
            /\ GlobalAdmitted(t)
            /\ tasks[t].store = tasks[t].gdec.v.matchedRoute.id
            /\ RouteReturned(t)
            /\ tasks[t].rdec.action \in {"ALLOW", "LOG"}

\* a request was forwarded on a route decision LOG
C1_Witness ==
    \E t \in WafTasks : ForwardedToOrigin(t) /\ tasks[t].rdec.action = "LOG"

\* the global decision names no rule: no enabled global rule matched
NoGlobalRuleMatched(t) ==
    /\ GlobalReturned(t) /\ tasks[t].gdec.ok
    /\ "matchedRuleId" \notin DOMAIN tasks[t].gdec.v

\* C3: when no enabled global rule matches, the request is neither evaluated by
\* a route store nor forwarded to an origin, even when its host matches a route.
C3_NoGlobalMatchIsFinalDeny ==
    \A t \in WafTasks :
        NoGlobalRuleMatched(t) =>
            /\ tasks[t].pc \notin RoutePcs
            /\ ~RouteReturned(t)
            /\ ~ForwardedToOrigin(t)

\* C4: route evaluation starts only after the global evaluation of the same
\* request has returned, and only when it returned ALLOW with a matched route;
\* a global BLOCK or CHALLENGE never reaches a route store.
C4_GlobalPrecedesRoute ==
    \A t \in WafTasks :
        (tasks[t].pc \in RoutePcs \/ RouteReturned(t) \/ tasks[t].store # GLOBAL) =>
            /\ GlobalAdmitted(t)
            /\ tasks[t].store = tasks[t].gdec.v.matchedRoute.id

\* a route store is evaluating a request that a global rule admitted
C4_Witness ==
    \E t \in WafTasks :
        /\ tasks[t].pc = "r_json"
        /\ "matchedRuleId" \in DOMAIN tasks[t].gdec.v

\* C9: every read that starts after a rule write has returned success reflects
\* that write, under every interleaving.
C9_ReadsReflectAcknowledgedWrites == \A t \in TaskIds : tasks[t].fresh

Loading(s) == {t \in TaskIds : tasks[t].pc \in {"g_loading", "r_loading"} /\ tasks[t].store = s}

RuleCase == evalIn.kind \in {"route", "global"} /\ evalOut.done

\* the rows of the input table that are enabled and match the input request
EnabledMatching ==
    {i \in 1..Len(evalIn.rules) :
        /\ evalIn.rules[i].enabled
        /\ evaluateExpression(evalIn.rules[i].expression, getRequestData(evalIn.req))}

\* the outcome of either store's evaluation, as a record
Outcome == IF evalIn.kind = "route" THEN evalOut.r ELSE evalOut.r.v

\* the outcome names a rule of the table
NamesRule ==
    /\ "matchedRuleId" \in DOMAIN Outcome
    /\ Outcome.matchedRuleId # "default-route-block"

\* the row the outcome names
Named == CHOOSE i \in 1..Len(evalIn.rules) : evalIn.rules[i].id = Outcome.matchedRuleId

\* C2: route evaluation of a request that matches no enabled rule returns BLOCK
\* with matched rule id default-route-block, for every ruleset, the empty one
\* and one whose rules are all disabled included.
C2_RouteDefaultBlock ==
    (evalIn.kind = "route" /\ evalOut.done /\ EnabledMatching = {}) =>
        evalOut.r = [action |-> "BLOCK", matchedRuleId |-> "default-route-block"]

\* a table of disabled rules, one of which would match, was answered by the default
C2_Witness ==
    /\ evalIn.kind = "route" /\ evalOut.done
    /\ Len(evalIn.rules) = MaxRules
    /\ \A i \in 1..Len(evalIn.rules) : ~evalIn.rules[i].enabled
    /\ \E i \in 1..Len(evalIn.rules) : evalIn.rules[i].expression = AnyRequest
    /\ evalOut.r.matchedRuleId = "default-route-block"

\* C5: the rule whose action an evaluation returns is an enabled rule that
\* matches the request and has the least priority among the enabled rules that
\* match it.
C5_MinimumPriorityWins ==
    (RuleCase /\ NamesRule) =>
        /\ \E i \in 1..Len(evalIn.rules) : evalIn.rules[i].id = Outcome.matchedRuleId
        /\ Named \in EnabledMatching
        /\ Outcome.action = evalIn.rules[Named].action
        /\ \A j \in EnabledMatching : evalIn.rules[Named].priority <= evalIn.rules[j].priority

\* the winner is stored after an enabled matching rule of greater priority value
C5_Witness ==
    /\ RuleCase /\ NamesRule
    /\ \E j \in EnabledMatching :
          j < Named /\ evalIn.rules[j].priority > evalIn.rules[Named].priority

\* C6: among enabled matching rules of the same priority, the one with the
\* lexicographically smallest id is returned, whatever the order of the rows.
C6_TieBrokenById ==
    (RuleCase /\ NamesRule) =>
        \A j \in EnabledMatching :
            evalIn.rules[j].priority = evalIn.rules[Named].priority =>
                IdRank(evalIn.rules[Named].id) <= IdRank(evalIn.rules[j].id)

HostCase == evalIn.kind = "host" /\ evalOut.done

ExactRows == {i \in 1..Len(evalIn.routes) : Str(evalIn.routes[i].incomingHost) = evalIn.host}

\* the rows *.S such that the host ends with .S
WildcardRows ==
    {i \in 1..Len(evalIn.routes) :
        /\ ~IsNullish(evalIn.host)
        /\ SubSeq(evalIn.routes[i].incomingHost, 1, 2) = <<"*", ".">>
        /\ EndsWith(evalIn.host.s, Tail(evalIn.routes[i].incomingHost))}

\* C7: when a route equals the host exactly, that route is returned, whatever
\* wildcard routes match and whatever the order of the rows.
C7_ExactMatchWins ==
    (HostCase /\ ExactRows # {}) =>
        /\ evalOut.r.ok
        /\ \E i \in ExactRows : evalOut.r.v = evalIn.routes[i]

\* the exact route was returned although a matching wildcard route precedes it
C7_Witness ==
    /\ HostCase /\ evalOut.r.ok
    /\ \E i \in ExactRows : \E j \in WildcardRows : j < i /\ evalOut.r.v = evalIn.routes[i]

\* C8: with no exact route and several matching wildcard routes, the one with
\* the longest suffix is returned, whatever the order of the rows.
C8_LongestSuffixWins ==
    (HostCase /\ ExactRows = {} /\ WildcardRows # {}) =>
        /\ evalOut.r.ok
        /\ \E i \in WildcardRows :
              /\ evalOut.r.v = evalIn.routes[i]
              /\ \A j \in WildcardRows :
                    Len(evalIn.routes[j].incomingHost) <= Len(evalIn.routes[i].incomingHost)

(***************************************************************************)
(* SpecApi: the rule API of one store, its requests run one after the      *)
(* other (no handler interleaves with another)                             *)
(***************************************************************************)
MaxCalls == 2       \* API requests in one behaviour of SpecApi

ApiResult(rows, status, body) == [rows |-> rows, status |-> status, body |-> body]

\* GlobalRulesDO.fetch -> handleRulesApi and RouteRulesDO.fetch -> handleRulesApi,
\* from the request to the response; GET is /api/global/config on the global
\* store and /api/routes/<route id>/rules on a route store
handleRulesApi(s, rows, req) ==
    LET ruleId == IF s = GLOBAL THEN GlobalRuleId(req.target) ELSE RouteRuleId(s)
    IN IF s # GLOBAL /\ req.target # ""
       THEN ApiResult(rows, 404, "Not found in RouteRulesDO")
       ELSE IF req.method = "GET"
       THEN ApiResult(rows, 200, "config")
       ELSE IF req.method = "POST" /\ HasId(rows, req.rule.id)
       THEN ApiResult(rows, 500, "SQLITE_CONSTRAINT")
       ELSE ApiResult(ExecSql(rows, req.method, ruleId, req.rule),
                      IF req.method = "POST" THEN 201 ELSE 200, req.method)

ApiRuleIds == {"a", "b"}

\* the tables a store starts from
ApiRuleRows ==
    {Rule(id, TRUE, "BLOCK", pr, AnyRequest, 0) : id \in ApiRuleIds, pr \in 1..MaxPriority}

ApiRuleTables == {q \in SeqUpTo(ApiRuleRows, MaxRules) : DistinctBy(q, LAMBDA r : r.id)}

\* the rules a POST carries: every priority from 0 to beyond any maximum plus 1
ApiCreatedRows ==
    {Rule(id, TRUE, "BLOCK", pr, AnyRequest, 0) : id \in ApiRuleIds, pr \in 0..(MaxPriority + 2)}

ApiCalls(s) ==
    {ApiRequest(s, "GET", "", NoRule)}
    \cup {ApiRequest(s, "POST", "", r) : r \in ApiCreatedRows}
    \cup {ApiRequest(s, "PUT", id, Rule(id, TRUE, "ALLOW", 1, AnyRequest, 0)) : id \in ApiRuleIds}
    \cup {ApiRequest(s, "DELETE", id, NoRule) : id \in ApiRuleIds}

\* a store and the table it starts from; reqs collects the calls made so far
ApiInputs ==
    {[kind |-> "api", store |-> s, reqs |-> <<>>, rows |-> rows] :
        s \in Stores, rows \in ApiRuleTables}

\* evalOut.hist[k] is the table before call k, evalOut.resps[k] the answer to it
ApiCall ==
    /\ evalIn.kind = "api"
    /\ Len(evalIn.reqs) < MaxCalls
    /\ \E req \in ApiCalls(evalIn.store) :
        LET k == Len(evalOut.resps) + 1
            r == handleRulesApi(evalIn.store, evalOut.hist[k], req)
        IN /\ evalIn' = [evalIn EXCEPT !.reqs = Append(@, req)]
           /\ evalOut' = [hist |-> Append(evalOut.hist, r.rows),
                          resps |-> Append(evalOut.resps,
                                           [status |-> r.status, body |-> r.body])]
    /\ UNCHANGED <<otp, sinks, config, build, routes, errorPages, db, cache, tasks, ver, ack, started, writes>>

InitApi ==
    /\ evalIn \in ApiInputs
    /\ evalOut = [hist |-> <<evalIn.rows>>, resps |-> <<>>]
    /\ routes = <<>> /\ errorPages = <<>>
    /\ db = <<>> /\ cache = <<>> /\ tasks = <<>>
    /\ ver = <<>> /\ ack = <<>> /\ started = 0 /\ writes = 0
    /\ config = <<>> /\ build = "" /\ sinks = NoRecords /\ otp = NoOtp

NextApi == ApiCall

SpecApi == InitApi /\ [][NextApi]_vars

(***************************************************************************)
(* Claims on the rule API (SpecApi)                                        *)
(***************************************************************************)
\* the calls that were answered
Answered == 1..Len(evalOut.resps)

\* call k names, in its path, a rule id that the table does not hold
UnknownId(k) ==
    /\ evalIn.reqs[k].method \in {"PUT", "DELETE"}
    /\ evalIn.reqs[k].target # ""
    /\ ~HasId(evalOut.hist[k], evalIn.reqs[k].target)

\* C11: an update or a delete addressed to a rule id that the store does not
\* hold is answered NotFound (404) and leaves the rules unchanged; it never
\* reports success.
C11_UnknownIdIsNotFound ==
    \A k \in Answered :
        UnknownId(k) =>
            /\ evalOut.resps[k].status = 404
            /\ evalOut.hist[k + 1] = evalOut.hist[k]

\* the greatest priority in a table, 0 for the empty table
MaxStored(rows) ==
    IF rows = <<>> THEN 0
    ELSE CHOOSE m \in {rows[i].priority : i \in 1..Len(rows)} :
            \A i \in 1..Len(rows) : rows[i].priority <= m

\* call k creates a rule whose priority is outside 1 .. current maximum + 1
BadPriority(k) ==
    /\ evalIn.reqs[k].method = "POST"
    /\ ~HasId(evalOut.hist[k], evalIn.reqs[k].rule.id)
    /\ \/ evalIn.reqs[k].rule.priority <= 0
       \/ evalIn.reqs[k].rule.priority > MaxStored(evalOut.hist[k]) + 1

\* C12: a create whose priority is not greater than 0, or exceeds the current
\* maximum priority plus 1, is rejected as InvalidInput (400) and the store is
\* left unchanged.
C12_CreateChecksPriority ==
    \A k \in Answered :
        BadPriority(k) =>
            /\ evalOut.resps[k].status = 400
            /\ evalOut.hist[k + 1] = evalOut.hist[k]

\* call k created a rule and call k + 1 deleted by that rule's id
CreateThenDelete(k) ==
    /\ k + 1 \in Answered
    /\ evalIn.reqs[k].method = "POST" /\ evalOut.resps[k].status = 201
    /\ evalIn.reqs[k + 1].method = "DELETE"
    /\ evalIn.reqs[k + 1].target = evalIn.reqs[k].rule.id

\* C15: in the global store and in a route store alike, creating a rule and
\* then deleting it by its id leaves the rules as they were before the create.
C15_CreateDeleteRoundTrip ==
    \A k \in Answered : CreateThenDelete(k) => evalOut.hist[k + 2] = evalOut.hist[k]

(***************************************************************************)
(* SpecUI: the dashboard of public/, which edits a configuration held in   *)
(* its React state (FirewallRulesView and RoutesView)                      *)
(*                                                                         *)
(* public/ carries the views twice: the createElement views of             *)
(* constants.js ("views") and the JSX application of globals.js ("jsx").   *)
(* Their rule handlers are the same; their route handlers find the         *)
(* admission rule of a route by tag and expression in the first and by     *)
(* rule id in the second.  One behaviour runs one of the two.              *)
(*                                                                         *)
(*  - A rule id built by a template literal is the sequence of its parts.  *)
(*  - priority null is 0, which is what the comparator a.priority -        *)
(*    b.priority and Math.max make of it.                                  *)
(*  - The editor's changes of name, description and conditions and the     *)
(*    rules made by GeolocationView are left out; a confirm dialog is      *)
(*    answered yes.                                                        *)
(***************************************************************************)
MaxUiRules == 4     \* global rules in the dashboard
MaxCustomRules == 2 \* rules of one route in the dashboard
MaxUiRoutes == 3    \* routes in the dashboard
MaxUiPriority == 5  \* greatest priority a new rule may be given
MaxEdits == 3       \* handler calls in one behaviour of SpecUI (counted in started)

Builds == {"views", "jsx"}

UiRule(id, priority, enabled, action, expression, tags) ==
    [id |-> id, priority |-> priority, enabled |-> enabled, action |-> action,
     expression |-> expression, tags |-> tags]

UiRoute(id, incomingHost, enabled, customRules) ==
    [id |-> id, incomingHost |-> incomingHost, enabled |-> enabled, customRules |-> customRules]

HostEquals(h) == <<[field |-> "request.headers.host", operator |-> "equals", value |-> h]>>

AUTO_TAGS == {"auto-generated", "route-rule"}

\* `global-route-${host}`
GlobalRouteId(h) == <<"global-route-", h>>

DEFAULT_CONFIG ==
    [routes |-> <<
        UiRoute("route-1", "www.domain.com", TRUE,
                <<UiRule(<<"www.domain.com-ALLOW-12a3b4-1">>, 1, TRUE, "ALLOW",
                         <<[field |-> "request.method", operator |-> "equals", value |-> "GET"]>>,
                         {})>>),
        UiRoute("route-2", "api.domain.com", TRUE, <<>>)>>,
     globalRules |-> <<
        UiRule(<<"global-BLOCK-c5d6e7-1">>, 1, TRUE, "BLOCK",
               <<[field |-> "request.cf.country", operator |-> "equals", value |-> "T1"]>>, {}),
        UiRule(<<"global-ALLOW-f8g9h0-1">>, 2, TRUE, "ALLOW", HostEquals("www.domain.com"), AUTO_TAGS),
        UiRule(<<"global-ALLOW-i1j2k3-1">>, 3, TRUE, "ALLOW", HostEquals("api.domain.com"), AUTO_TAGS)>>]

\* what Date.now() and Math.random() may give
NewRouteIds == {"route-3"}
NewHosts == {"new-route-x.domain.com"}
NewSuffixes == {"s1"}

MaxOf(S) == IF S = {} THEN 0 ELSE CHOOSE m \in S : \A x \in S : x <= m

\* Math.max(0, ...rules.map(r => r.priority))
MaxPriorityOf(rows) == MaxOf({0} \cup {rows[i].priority : i \in 1..Len(rows)})

RouteIdsOf(cfg) == {cfg.routes[i].id : i \in 1..Len(cfg.routes)}

RouteOf(cfg, routeId) ==
    cfg.routes[CHOOSE i \in 1..Len(cfg.routes) : cfg.routes[i].id = routeId]

\* the tenants of the dashboard: 'global' and the routes
Contexts(cfg) == {GLOBAL} \cup RouteIdsOf(cfg)

currentRules(cfg, ctx) ==
    IF ctx = GLOBAL THEN cfg.globalRules ELSE RouteOf(cfg, ctx).customRules

activeRules(cfg, ctx) == SortByPriority(EnabledRows(currentRules(cfg, ctx)))

disabledRules(cfg, ctx) == SelectSeq(currentRules(cfg, ctx), LAMBDA r : ~r.enabled)

updateRulesForContext(cfg, ctx, newRules) ==
    IF ctx = GLOBAL THEN [cfg EXCEPT !.globalRules = newRules]
    ELSE [cfg EXCEPT !.routes =
            [i \in 1..Len(cfg.routes) |->
                IF cfg.routes[i].id = ctx THEN [cfg.routes[i] EXCEPT !.customRules = newRules]
                ELSE cfg.routes[i]]]

\* --- FirewallRulesView ---------------------------------------------------

handleRuleToggle(cfg, ctx, ruleId) ==
    LET cur == currentRules(cfg, ctx)
        maxPriority == MaxPriorityOf(activeRules(cfg, ctx))
        toggledRules ==
            [i \in 1..Len(cur) |->
                IF cur[i].id = ruleId
                THEN IF ~cur[i].enabled
                     THEN [cur[i] EXCEPT !.enabled = TRUE, !.priority = maxPriority + 1]
                     ELSE [cur[i] EXCEPT !.enabled = FALSE, !.priority = 0]
                ELSE cur[i]]
        \* priorityCounter++ runs over toggledRules, that is in the order of the list
        finalRules ==
            [i \in 1..Len(toggledRules) |->
                IF toggledRules[i].enabled
                THEN [toggledRules[i] EXCEPT
                        !.priority = Cardinality({j \in 1..i : toggledRules[j].enabled})]
                ELSE toggledRules[i]]
    IN updateRulesForContext(cfg, ctx, finalRules)

handleRuleDelete(cfg, ctx, ruleId) ==
    updateRulesForContext(cfg, ctx, SelectSeq(currentRules(cfg, ctx), LAMBDA r : r.id # ruleId))

\* the rule the editor opens on for "Create Rule"
handleCreateRule(cfg, ctx) ==
    UiRule(<<"new-rule-">>, MaxPriorityOf(activeRules(cfg, ctx)) + 1, TRUE, "BLOCK", <<>>, {})

ALL_FIELDS == {"request.headers.host", "request.method", "request.cf.country"}

\* RuleEditor.handleSave: tags and, for a new rule, the id
handleSave(editedRule, context, suffix) ==
    LET autoTags == {editedRule.expression[i].field : i \in 1..Len(editedRule.expression)}
        customTags == editedRule.tags \ ALL_FIELDS
    IN [editedRule EXCEPT
            !.tags = autoTags \cup customTags,
            !.id = IF Head(editedRule.id) = "new-rule-"
                   THEN <<context, editedRule.action, suffix>> ELSE editedRule.id]

handleSaveRule(cfg, ctx, savedRule) ==
    LET cur == currentRules(cfg, ctx)
        existing == {i \in 1..Len(cur) : cur[i].id = savedRule.id}
    IN IF existing # {}
       THEN updateRulesForContext(cfg, ctx,
                [cur EXCEPT ![CHOOSE i \in existing : \A j \in existing : i <= j] = savedRule])
       ELSE updateRulesForContext(cfg, ctx, Append(cur, savedRule))

\* a move that swaps the two rules and leaves their priorities as they are
reprioritizeNot(rules) == rules

\* newActiveRules.map((rule, idx) => ({...rule, priority: idx + 1}))
reprioritize(rules) == [i \in 1..Len(rules) |-> [rules[i] EXCEPT !.priority = i]]

\* index counts from 1 here
handleMoveRule(cfg, ctx, index, direction) ==
    LET active == activeRules(cfg, ctx)
        targetIndex == index + direction
        newActiveRules ==
            [i \in 1..Len(active) |->
                IF i = index THEN active[targetIndex]
                ELSE IF i = targetIndex THEN active[index] ELSE active[i]]
    IN IF targetIndex < 1 \/ targetIndex > Len(active) THEN cfg
       ELSE updateRulesForContext(cfg, ctx,
                reprioritize(newActiveRules) \o disabledRules(cfg, ctx))

\* the name the editor puts into the id of a new rule
ContextName(cfg, ctx) == IF ctx = GLOBAL THEN "global" ELSE RouteOf(cfg, ctx).incomingHost

\* --- RoutesView ------------------------------------------------------------

\* how a route handler recognises the admission rule of a host
IsRouteRule(b, gr, host) ==
    IF b = "views"
    THEN "auto-generated" \in gr.tags /\ gr.expression[1].value = host
    ELSE gr.id = GlobalRouteId(host)

handleRouteEnabledChange(b, cfg, routeId, isEnabled) ==
    LET targetRoute == RouteOf(cfg, routeId)
    IN [routes |-> [i \in 1..Len(cfg.routes) |->
                        IF cfg.routes[i].id = routeId
                        THEN [cfg.routes[i] EXCEPT !.enabled = isEnabled] ELSE cfg.routes[i]],
        globalRules |-> [i \in 1..Len(cfg.globalRules) |->
                        IF IsRouteRule(b, cfg.globalRules[i], targetRoute.incomingHost)
                        THEN [cfg.globalRules[i] EXCEPT !.enabled = isEnabled]
                        ELSE cfg.globalRules[i]]]

addRoute(cfg, newRouteId, newHost) ==
    [routes |-> Append(cfg.routes, UiRoute(newRouteId, newHost, TRUE, <<>>)),
     globalRules |-> Append(cfg.globalRules,
                        UiRule(GlobalRouteId(newHost), MaxPriorityOf(cfg.globalRules) + 1, TRUE,
                               "ALLOW", HostEquals(newHost), AUTO_TAGS))]

removeRoute(b, cfg, routeToRemove) ==
    [routes |-> SelectSeq(cfg.routes, LAMBDA r : r.id # routeToRemove.id),
     globalRules |-> SelectSeq(cfg.globalRules,
                        LAMBDA r : ~IsRouteRule(b, r, routeToRemove.incomingHost))]

\* --- the dashboard as a state machine ----------------------------------------
\* evalIn holds the last handler call: for a move its arguments and the
\* configuration it was made on, for the removal of a route the route's host
OtherCall == [op |-> "other"]

IdsOf(rules) == {rules[i].id : i \in 1..Len(rules)}

UiStep(call, cfg) ==
    /\ started < MaxEdits
    /\ started' = started + 1
    /\ evalIn' = call
    /\ config' = cfg
    /\ UNCHANGED <<otp, sinks, build, evalOut, routes, errorPages, db, cache, tasks, ver, ack, writes>>

RuleToggle(ctx, ruleId) ==
    /\ ctx \in Contexts(config) /\ ruleId \in IdsOf(currentRules(config, ctx))
    /\ UiStep(OtherCall, handleRuleToggle(config, ctx, ruleId))

RuleDelete(ctx, ruleId) ==
    /\ ctx \in Contexts(config) /\ ruleId \in IdsOf(currentRules(config, ctx))
    /\ UiStep(OtherCall, handleRuleDelete(config, ctx, ruleId))

\* "Create Rule", the choice of an action in the editor, "Save"
CreateRule(ctx, action, suffix) ==
    /\ ctx \in Contexts(config)
    /\ Len(currentRules(config, ctx)) < (IF ctx = GLOBAL THEN MaxUiRules ELSE MaxCustomRules)
    /\ LET editedRule == [handleCreateRule(config, ctx) EXCEPT !.action = action]
           savedRule == handleSave(editedRule, ContextName(config, ctx), suffix)
       IN /\ savedRule.priority <= MaxUiPriority
          /\ savedRule.id \notin IdsOf(currentRules(config, ctx))
          /\ UiStep(OtherCall, handleSaveRule(config, ctx, savedRule))

\* "Edit" on a rule, the choice of an action in the editor, "Save"
SaveRule(ctx, ruleId, action) ==
    /\ ctx \in Contexts(config) /\ ruleId \in IdsOf(currentRules(config, ctx))
    /\ LET cur == currentRules(config, ctx)
           rule == cur[CHOOSE i \in 1..Len(cur) : cur[i].id = ruleId]
           savedRule == handleSave([rule EXCEPT !.action = action], ContextName(config, ctx), "")
       IN UiStep(OtherCall, handleSaveRule(config, ctx, savedRule))

MoveRule(ctx, index, direction) ==
    /\ ctx \in Contexts(config) /\ index \in 1..Len(activeRules(config, ctx))
    /\ UiStep([op |-> "handleMoveRule", ctx |-> ctx, index |-> index, direction |-> direction,
               before |-> config],
              handleMoveRule(config, ctx, index, direction))

\* the checkbox of a route: isEnabled is the opposite of route.enabled
RouteEnabledChange(routeId) ==
    /\ routeId \in RouteIdsOf(config)
    /\ UiStep(OtherCall,
              handleRouteEnabledChange(build, config, routeId, ~RouteOf(config, routeId).enabled))

AddRoute(newRouteId, newHost) ==
    /\ newRouteId \notin RouteIdsOf(config)
    /\ \A i \in 1..Len(config.routes) : config.routes[i].incomingHost # newHost
    /\ Len(config.routes) < MaxUiRoutes /\ Len(config.globalRules) < MaxUiRules
    /\ MaxPriorityOf(config.globalRules) + 1 <= MaxUiPriority
    /\ UiStep(OtherCall, addRoute(config, newRouteId, newHost))

RemoveRoute(routeId) ==
    /\ routeId \in RouteIdsOf(config)
    /\ UiStep([op |-> "removeRoute", host |-> RouteOf(config, routeId).incomingHost],
              removeRoute(build, config, RouteOf(config, routeId)))

UiContexts == {GLOBAL, "route-1", "route-2", "route-3"}

UiRuleIds ==
    IdsOf(DEFAULT_CONFIG.globalRules) \cup IdsOf(DEFAULT_CONFIG.routes[1].customRules)
    \cup {GlobalRouteId(h) : h \in NewHosts}
    \cup {<<c, a, x>> : c \in {"global", "www.domain.com", "api.domain.com"} \cup NewHosts,
                        a \in {"BLOCK"}, x \in NewSuffixes}

InitUI ==
    /\ config = DEFAULT_CONFIG
    /\ build \in Builds
    /\ evalIn = [op |-> "none"] /\ evalOut = NotApplied
    /\ routes = <<>> /\ errorPages = <<>>
    /\ db = <<>> /\ cache = <<>> /\ tasks = <<>>
    /\ ver = <<>> /\ ack = <<>> /\ started = 0 /\ writes = 0
    /\ sinks = NoRecords /\ otp = NoOtp

NextUI ==
    \/ \E ctx \in UiContexts, id \in UiRuleIds : RuleToggle(ctx, id)
    \/ \E ctx \in UiContexts, id \in UiRuleIds : RuleDelete(ctx, id)
    \/ \E ctx \in UiContexts, x \in NewSuffixes : CreateRule(ctx, "BLOCK", x)
    \/ \E ctx \in UiContexts, id \in UiRuleIds, a \in {"ALLOW", "BLOCK"} : SaveRule(ctx, id, a)
    \/ \E ctx \in UiContexts, i \in 1..MaxUiRules, d \in {-1, 1} : MoveRule(ctx, i, d)
    \/ \E r \in UiContexts \ {GLOBAL} : RouteEnabledChange(r)
    \/ \E r \in NewRouteIds, h \in NewHosts : AddRoute(r, h)
    \/ \E r \in UiContexts \ {GLOBAL} : RemoveRoute(r)

SpecUI == InitUI /\ [][NextUI]_vars

(***************************************************************************)
(* Claims on the dashboard (SpecUI)                                        *)
(***************************************************************************)
EnabledOf(rules) == SelectSeq(rules, LAMBDA r : r.enabled)

\* the enabled rules carry the priorities 1..N, each once
Dense(rules) ==
    /\ {EnabledOf(rules)[i].priority : i \in 1..Len(EnabledOf(rules))} = 1..Len(EnabledOf(rules))
    /\ \A i, j \in 1..Len(EnabledOf(rules)) :
          i # j => EnabledOf(rules)[i].priority # EnabledOf(rules)[j].priority

\* C13: after any sequence of edits, the enabled rules of every tenant (the
\* global rules and the rules of each route) have pairwise distinct priorities
\* that are exactly 1..N, N being the number of enabled rules.
C13_DensePriorities == \A ctx \in Contexts(config) : Dense(currentRules(config, ctx))

\* the last call moved a rule, and the move was carried out
Moved ==
    /\ evalIn.op = "handleMoveRule"
    /\ evalIn.index + evalIn.direction \in 1..Len(activeRules(evalIn.before, evalIn.ctx))

\* the order L that the move asked for: the ids of the enabled rules, by
\* priority, with the two rules exchanged
MovedOrder ==
    LET active == activeRules(evalIn.before, evalIn.ctx)
        targetIndex == evalIn.index + evalIn.direction
    IN [i \in 1..Len(active) |->
            IF i = evalIn.index THEN active[targetIndex].id
            ELSE IF i = targetIndex THEN active[evalIn.index].id ELSE active[i].id]

\* C14: after a reorder of the enabled rules into order L, the enabled rules
\* carry the priorities 1..len(L) in the order of L, whatever their priorities
\* were before.
C14_ReorderRenumbers ==
    Moved =>
        LET en == EnabledOf(currentRules(config, evalIn.ctx))
        IN /\ Len(en) = Len(MovedOrder)
           /\ \A i \in 1..Len(MovedOrder) :
                 \E k \in 1..Len(en) : en[k].id = MovedOrder[i] /\ en[k].priority = i

\* a move was carried out on rules whose priorities were not 1..N
C14_Witness ==
    /\ Moved
    /\ ~Dense(currentRules(evalIn.before, evalIn.ctx))
    /\ Len(MovedOrder) >= 2

\* an enabled auto-generated global ALLOW rule on request.headers.host equals h
Admission(r, h) ==
    /\ "auto-generated" \in r.tags
    /\ r.expression = HostEquals(h)

\* C16: for every enabled route with host H there is an enabled auto-generated
\* global ALLOW rule whose expression is request.headers.host equals H, after
\* any sequence of route and rule operations.
C16_AdmissionCoherence ==
    \A i \in 1..Len(config.routes) :
        config.routes[i].enabled =>
            \E k \in 1..Len(config.globalRules) :
                /\ Admission(config.globalRules[k], config.routes[i].incomingHost)
                /\ config.globalRules[k].enabled
                /\ config.globalRules[k].action = "ALLOW"

\* C17: after the deletion of a route with host H the global rules hold no
\* auto-generated rule that admits H.
C17_RemoveRouteRemovesRule ==
    evalIn.op = "removeRoute" =>
        \A k \in 1..Len(config.globalRules) : ~Admission(config.globalRules[k], evalIn.host)

(***************************************************************************)
(* Claims on the whole pipeline as a function (SpecFetch)                *)
(***************************************************************************)
FetchCase == evalIn.kind = "fetch" /\ evalOut.done

\* a rule of the global table fired with action ac
GlobalFired(ac) ==
    /\ FetchCase /\ evalOut.r.gdec.ok
    /\ "matchedRuleId" \in DOMAIN evalOut.r.gdec.v
    /\ evalOut.r.gdec.v.action = ac

\* a rule of the route's table fired with action ac
RouteFired(ac) ==
    /\ FetchCase /\ evalOut.r.rdec # None
    /\ evalOut.r.rdec.matchedRuleId # "default-route-block"
    /\ evalOut.r.rdec.action = ac

\* the table with the action of rule id changed to ac
WithAction(rows, id, ac) ==
    [i \in 1..Len(rows) |-> IF rows[i].id = id THEN [rows[i] EXCEPT !.action = ac] ELSE rows[i]]

\* the answer to the same request when the global rule that fired carries ac
GlobalRuleChanged(ac) ==
    fetchWaf([FetchSnapshot(evalIn) EXCEPT
                !.globalRules = WithAction(evalIn.rules, evalOut.r.gdec.v.matchedRuleId, ac)],
             evalIn.routeRules, evalIn.req).resp

\* the answer to the same request when the route rule that fired carries ac
RouteRuleChanged(ac) ==
    fetchWaf(FetchSnapshot(evalIn),
             WithAction(evalIn.routeRules, evalOut.r.rdec.matchedRuleId, ac), evalIn.req).resp

\* C18: CHALLENGE is handled as BLOCK: changing the action of the rule that
\* fired from CHALLENGE to BLOCK, at the global or at the route tier, changes
\* neither the response nor whether an origin is called.
C18_ChallengeIsBlock ==
    /\ GlobalFired("CHALLENGE") => GlobalRuleChanged("BLOCK") = evalOut.r.resp
    /\ RouteFired("CHALLENGE") => RouteRuleChanged("BLOCK") = evalOut.r.resp

\* a CHALLENGE rule of the global tier fired and the client got the error page
C18_Witness ==
    /\ GlobalFired("CHALLENGE")
    /\ evalOut.r.resp.kind = "block" /\ evalOut.r.resp.status = 451

\* C19: LOG is observed as ALLOW for dispatch: changing the action of the rule
\* that fired from LOG to ALLOW, at the global or at the route tier, does not
\* change whether the request is forwarded to the origin.
C19_LogIsAllow ==
    /\ GlobalFired("LOG") =>
          (GlobalRuleChanged("ALLOW").kind = "origin") = (evalOut.r.resp.kind = "origin")
    /\ RouteFired("LOG") =>
          (RouteRuleChanged("ALLOW").kind = "origin") = (evalOut.r.resp.kind = "origin")

\* the error page registered for a block_http_code (403 when the rule has
\* none), or the hard-coded page
PageFor(code) ==
    LET c == IF code = 0 THEN 403 ELSE code
    IN IF \E i \in 1..Len(evalIn.errorPages) : evalIn.errorPages[i].http_code = c
       THEN LET pg == evalIn.errorPages[CHOOSE i \in 1..Len(evalIn.errorPages) :
                                            evalIn.errorPages[i].http_code = c]
            IN Response("block", pg.http_code, pg.content_type, pg.body)
       ELSE Response("block", 403, "text/html", "<h1>Forbidden</h1>")

\* the row of a table with a given id
RowWithId(rows, id) == rows[CHOOSE i \in 1..Len(rows) : rows[i].id = id]

\* C20: when a rule fires with BLOCK or CHALLENGE, at the global or at the
\* route tier, the status, content type and body of the response are those of
\* the error page registered for that rule's block_http_code (403 when it has
\* none), or of the hard-coded 403 page when there is no such error page.
C20_BlockUsesRulesErrorPage ==
    /\ (GlobalFired("BLOCK") \/ GlobalFired("CHALLENGE")) =>
          evalOut.r.resp =
            PageFor(RowWithId(evalIn.rules, evalOut.r.gdec.v.matchedRuleId).block_http_code)
    /\ (RouteFired("BLOCK") \/ RouteFired("CHALLENGE")) =>
          evalOut.r.resp =
            PageFor(RowWithId(evalIn.routeRules, evalOut.r.rdec.matchedRuleId).block_http_code)

\* the pipeline reached the route tier, whose decision admits the request
RouteAdmitted == FetchCase /\ evalOut.r.rdec # None /\ Admits(evalOut.r.rdec)

\* the origin of the matched route cannot be called: a service that env does
\* not bind, or a url origin with no origin_url
Misconfigured(route) ==
    \/ route.origin_type = "service" /\ route.origin_service_name \notin EnvBindings
    \/ route.origin_type = "url" /\ route.origin_url = ""

\* C21: when route evaluation admits a request (ALLOW or LOG) but the route's
\* origin is misconfigured, the worker answers with a synthesized 500 and
\* makes no origin call.
C21_MisconfiguredOriginIs500 ==
    (RouteAdmitted /\ Misconfigured(evalOut.r.gdec.v.matchedRoute)) =>
        /\ evalOut.r.resp.kind = "misconfig"
        /\ evalOut.r.resp.status = 500

\* a route rule LOG admitted a request to a route whose service is not bound
C21_Witness ==
    /\ RouteAdmitted
    /\ evalOut.r.rdec.action = "LOG"
    /\ evalOut.r.gdec.v.matchedRoute.origin_type = "service"
    /\ Misconfigured(evalOut.r.gdec.v.matchedRoute)

(***************************************************************************)
(* Claims on the sinks (Spec)                                              *)
(***************************************************************************)
\* the pipeline ended for the request of t: block or challenge, final deny,
\* origin dispatch or origin misconfiguration
Terminated(t) ==
    /\ tasks[t].kind = "waf" /\ tasks[t].pc = "done"
    /\ tasks[t].resp.kind \in {"block", "no_route", "origin", "misconfig"}

EventsOf(req) == {i \in 1..Len(sinks.events) : sinks.events[i].request = req}

\* C22: every request that reaches a terminal state of the pipeline (block,
\* challenge, final deny, origin dispatch, origin misconfiguration) has an
\* event record in the event sink.
C22_TerminalStateEmitsEvent ==
    \A t \in TaskIds : Terminated(t) => EventsOf(tasks[t].req) # {}

\* success of a rule write was returned to the caller of t
WriteAcknowledged(t) ==
    /\ tasks[t].kind = "api" /\ tasks[t].pc = "done"
    /\ tasks[t].resp.kind = "written"

AuditsOf(s, method) ==
    {i \in 1..Len(sinks.audit) :
        sinks.audit[i].context = s /\ sinks.audit[i].action = method}

\* C23: every rule write (create, update, delete) that committed in a store
\* and was answered with success has, by then, an audit record in the audit
\* sink.
C23_WriteEmitsAudit ==
    \A t \in TaskIds :
        WriteAcknowledged(t) => AuditsOf(tasks[t].store, tasks[t].req.method) # {}

\* the write request of t takes a step: it starts (this.cache = null), runs
\* its statement or returns
WriteStep(t) ==
    /\ IF started' # started THEN Free(t) ELSE tasks'[t].pc # tasks[t].pc
    /\ tasks'[t].kind = "api" /\ tasks'[t].req.method # "GET"

\* C27: a rule write to one store (the global store or a route's store)
\* leaves the persisted rules and the cache of every other store unchanged,
\* and with them the results of evaluation there, which reads nothing else.
C27_TenantIsolation ==
    [][\A t \in TaskIds :
          WriteStep(t) =>
              \A o \in Stores \ {tasks'[t].store} :
                  /\ db'[o] = db[o]
                  /\ cache'[o] = cache[o]
                  /\ ver'[o] = ver[o]]_vars

\* a write to the global store was acknowledged while the route store holds
\* rules and a loaded cache
C27_Witness ==
    \E t \in TaskIds :
        /\ WriteAcknowledged(t) /\ tasks[t].store = GLOBAL
        /\ ver[GLOBAL] > 0
        /\ db["route-1"] # <<>> /\ cache["route-1"].loaded

(***************************************************************************)
(* SpecAuth: the authenticated API of worker.js (ROUTE 3) in front of the  *)
(* stores, and worker.js fetch as a whole, applied to enumerated requests  *)
(*                                                                         *)
(* An Authorization header is NoAuth when the request has none, else its   *)
(* scheme and, for the token that follows, the secret it was signed with,  *)
(* whether its exp lies in the past and the role of its payload ("" when   *)
(* the payload has no role).                                               *)
(***************************************************************************)
NoAuth == [present |-> FALSE]

Authorization(scheme, secret, expired, role) ==
    [present |-> TRUE, scheme |-> scheme, secret |-> secret, expired |-> expired,
     role |-> role]

BEARER == "Bearer "
JWT_SECRET == "JWT_SECRET"

Null == [t |-> "null"]

\* worker.js verifyJwt: null unless the HMAC verifies under the secret and
\* the token has not expired, else the decoded payload
verifyJwt(token, secret) ==
    IF token.secret # secret THEN Null
    ELSE IF token.expired THEN Null
    ELSE [t |-> "payload", sub |-> "admin@wafu.com", role |-> token.role]

\* worker.js getAdminUserFromJwt; role: payload.role || 'viewer'
getAdminUserFromJwt(auth) ==
    IF ~auth.present \/ auth.scheme # BEARER
    THEN [isAuthenticated |-> FALSE, user |-> Null]
    ELSE LET payload == verifyJwt(auth, JWT_SECRET)
         IN IF payload = Null
            THEN [isAuthenticated |-> FALSE, user |-> Null]
            ELSE [isAuthenticated |-> TRUE,
                  user |-> [id |-> payload.sub,
                            role |-> IF payload.role = "" THEN "viewer" ELSE payload.role]]

\* a worker that lets every authenticated user write
ForbiddenNever(method, user) == FALSE

\* worker.js line 67: request.method !== 'GET' && user.role !== 'administrator'
Forbidden(method, user) == method # "GET" /\ user.role # "administrator"

NoStore == "none"
OTHER_PATH == "other"

\* worker.js lines 61-86: the request req under /api/ with Authorization header
\* auth; rows is the rules table of the store the path names, reached is the
\* store whose fetch was called
fetchApi(rows, req, auth) ==
    LET session == getAdminUserFromJwt(auth)
    IN IF ~session.isAuthenticated
       THEN [status |-> 401, body |-> "Unauthorized", reached |-> NoStore, rows |-> rows]
       ELSE IF Forbidden(req.method, session.user)
       THEN [status |-> 403, body |-> "Forbidden", reached |-> NoStore, rows |-> rows]
       ELSE IF req.store \in Stores
       THEN LET r == handleRulesApi(req.store, rows, req)
            IN [status |-> r.status, body |-> r.body, reached |-> req.store, rows |-> r.rows]
       ELSE [status |-> 404, body |-> "API endpoint not found", reached |-> NoStore,
             rows |-> rows]

(***************************************************************************)
(* worker.js fetch as a whole: the four branches on url.pathname.  A path  *)
(* is a sequence of tokens, "/" and the segments between.                  *)
(***************************************************************************)
ADMIN_UI == <<"/", "wafu-admin">>
API == <<"/", "api", "/">>
LOGIN == <<"/", "api", "/", "admin", "/", "login">>
API_GLOBAL == <<"/", "api", "/", "global", "/">>
API_ROUTES == <<"/", "api", "/", "routes", "/">>

\* request.method as the API handlers of the stores read it
MethodName(m) == CASE m = GET -> "GET" [] m = POST -> "POST" [] OTHER -> "OTHER"

\* worker.js lines 75-85: the store an API path names;
\* /^\/api\/routes\/(route-\d+)/ needs a route id after /api/routes/
PathStore(path) ==
    IF StartsWith(path, API_GLOBAL) THEN GLOBAL
    ELSE IF StartsWith(path, API_ROUTES) /\ Len(path) > Len(API_ROUTES)
            /\ path[Len(API_ROUTES) + 1] \in RouteStores
    THEN path[Len(API_ROUTES) + 1]
    ELSE OTHER_PATH

\* the rule id a store takes from the path: none on a collection path
PathTarget(path) ==
    IF path[Len(path)] \in {"rules", "config"} THEN "" ELSE path[Len(path)]

\* worker.js lines 31-138: req with Authorization header auth and, for a
\* login, a body whose password is or is not env.WAFU_ADMIN_SECRET;
\* evaluated tells whether globalDO.evaluate was called
fetch(snapshot, routeRules, req, auth, passwordOk) ==
    IF StartsWith(req.path, ADMIN_UI)
    THEN [resp |-> Response("assets", 200, "text/html", "env.ASSETS"), evaluated |-> FALSE]
    ELSE IF req.path = LOGIN /\ req.method = POST
    THEN [resp |-> IF passwordOk
                   THEN Response("login", 200, "application/json", "token")
                   ELSE Response("login", 401, "application/json", "Invalid credentials"),
          evaluated |-> FALSE]
    ELSE IF StartsWith(req.path, API)
    THEN LET s == PathStore(req.path)
             rows == IF s = GLOBAL THEN snapshot.globalRules ELSE routeRules
             r == fetchApi(rows, ApiRequest(s, MethodName(req.method),
                                            PathTarget(req.path), NoRule), auth)
         IN [resp |-> Response("api", r.status, "", r.body), evaluated |-> FALSE]
    ELSE [resp |-> fetchWaf(snapshot, routeRules, req).resp, evaluated |-> TRUE]

WorkerPaths ==
    {<<"/">>, <<"/", "x">>,
     <<"/", "wafu-admin">>, <<"/", "wafu-admin", "/", "index.html">>,
     LOGIN,
     <<"/", "api", "/", "global", "/", "config">>,
     <<"/", "api", "/", "routes", "/", "route-1", "/", "rules">>,
     <<"/", "api", "/", "users">>}

WorkerInputs ==
    {[kind |-> "worker", rules |-> q, routes |-> rt, routeRules |-> rq,
      req |-> Request(m, p, WithHost(HostABE)), auth |-> auth, passwordOk |-> pw] :
        q \in {<<>>} \cup {<<Rule("a", en, ac, 1, AnyRequest, 0)>> :
                                en \in BOOLEAN, ac \in {"BLOCK", "ALLOW"}},
        rt \in {<<>>, <<Route("route-1", HostABE, "url", "https://origin", "", TRUE)>>},
        rq \in {<<>>, <<Rule("a", TRUE, "ALLOW", 1, AnyRequest, 0)>>},
        m \in {GET, POST}, p \in WorkerPaths,
        auth \in {NoAuth, Authorization(BEARER, JWT_SECRET, FALSE, "administrator")},
        pw \in BOOLEAN}

ApplyWorkerFetch ==
    /\ evalIn.kind = "worker" /\ ~evalOut.done
    /\ evalOut' = Applied(fetch([globalRules |-> evalIn.rules, routes |-> evalIn.routes,
                                 errorPages |-> <<>>],
                                evalIn.routeRules, evalIn.req, evalIn.auth,
                                evalIn.passwordOk))
    /\ UNCHANGED <<otp, sinks, config, build, evalIn, routes, errorPages, db, cache, tasks, ver, ack, started, writes>>

AuthHeaders ==
    {NoAuth,
     Authorization("Basic ", JWT_SECRET, FALSE, "administrator"),
     Authorization(BEARER, "WAFU_CONFIG_SECRET", FALSE, "administrator"),
     Authorization(BEARER, JWT_SECRET, TRUE, "administrator"),
     Authorization(BEARER, JWT_SECRET, FALSE, "administrator"),
     Authorization(BEARER, JWT_SECRET, FALSE, "viewer"),
     Authorization(BEARER, JWT_SECRET, FALSE, "")}

AuthRequests ==
    UNION {ApiCalls(s) : s \in Stores}
    \cup {ApiRequest(OTHER_PATH, m, "", NoRule) : m \in {"GET", "POST"}}

AuthInputs ==
    {[kind |-> "auth", rows |-> rows, req |-> req, auth |-> auth] :
        rows \in ApiRuleTables, req \in AuthRequests, auth \in AuthHeaders}

ApplyFetchApi ==
    /\ evalIn.kind = "auth" /\ ~evalOut.done
    /\ evalOut' = Applied(fetchApi(evalIn.rows, evalIn.req, evalIn.auth))
    /\ UNCHANGED <<otp, sinks, config, build, evalIn, routes, errorPages, db, cache, tasks, ver, ack, started, writes>>

InitAuth ==
    /\ evalIn \in AuthInputs \cup WorkerInputs
    /\ evalOut = NotApplied
    /\ routes = <<>> /\ errorPages = <<>>
    /\ db = <<>> /\ cache = <<>> /\ tasks = <<>>
    /\ ver = <<>> /\ ack = <<>> /\ started = 0 /\ writes = 0
    /\ config = <<>> /\ build = "" /\ sinks = NoRecords /\ otp = NoOtp

NextAuth == ApplyFetchApi \/ ApplyWorkerFetch

SpecAuth == InitAuth /\ [][NextAuth]_vars

\* the request carries a token that this deployment signed and that has not
\* expired
ValidSession(auth) ==
    /\ auth.present /\ auth.scheme = BEARER
    /\ auth.secret = JWT_SECRET /\ ~auth.expired

IsAdministrator(auth) == ValidSession(auth) /\ auth.role = "administrator"

AuthCase == evalIn.kind = "auth" /\ evalOut.done

\* C24: no configuration API request reaches a store unless it carries a
\* valid session, and no non-GET request reaches a store unless the session's
\* role is administrator; a write by a valid session of another role is
\* answered 403 and changes no store.
C24_ApiNeedsSessionAndRole ==
    AuthCase =>
        /\ evalOut.r.reached # NoStore => ValidSession(evalIn.auth)
        /\ (evalOut.r.reached # NoStore /\ evalIn.req.method # "GET")
                => IsAdministrator(evalIn.auth)
        /\ (ValidSession(evalIn.auth) /\ ~IsAdministrator(evalIn.auth)
             /\ evalIn.req.method # "GET")
                => /\ evalOut.r.status = 403
                   /\ evalOut.r.rows = evalIn.rows
        /\ ~ValidSession(evalIn.auth) => evalOut.r.rows = evalIn.rows

\* a viewer's DELETE of a rule the store holds was answered 403
C24_Witness ==
    /\ AuthCase
    /\ ValidSession(evalIn.auth) /\ evalIn.auth.role = "viewer"
    /\ evalIn.req.method = "DELETE"
    /\ evalIn.req.store = GLOBAL /\ HasId(evalIn.rows, evalIn.req.target)
    /\ evalOut.r.status = 403

(***************************************************************************)
(* Claims on the stores under interleaving (Spec)                          *)
(***************************************************************************)
\* t and u evaluated the same request in the global store while its rules
\* were at one version, with no write between or during the two
SameGlobalEvaluation(t, u) ==
    /\ tasks[t].kind = "waf" /\ tasks[u].kind = "waf"
    /\ tasks[t].req = tasks[u].req
    /\ GlobalReturned(t) /\ GlobalReturned(u)
    /\ tasks[t].gAt # NotQuiet /\ tasks[t].gAt = tasks[u].gAt

SameRouteEvaluation(t, u) ==
    /\ tasks[t].kind = "waf" /\ tasks[u].kind = "waf"
    /\ tasks[t].req = tasks[u].req /\ tasks[t].store = tasks[u].store
    /\ RouteReturned(t) /\ RouteReturned(u)
    /\ tasks[t].rAt # NotQuiet /\ tasks[t].rAt = tasks[u].rAt

\* C25: two evaluations of the same request against a store with no write in
\* between yield the same outcome (action, matched rule id, block code),
\* whether they were served from the cache or after a reload.
C25_EvaluationIsDeterministic ==
    \A t, u \in TaskIds :
        /\ SameGlobalEvaluation(t, u) => tasks[t].gdec = tasks[u].gdec
        /\ SameRouteEvaluation(t, u) => tasks[t].rdec = tasks[u].rdec

WorkerCase == evalIn.kind = "worker" /\ evalOut.done

\* an enabled global rule with action BLOCK is the rule that fires on the
\* request
GlobalBlockFires ==
    LET active == ActiveRules(evalIn.rules)
        i == FirstMatch(active, getRequestData(evalIn.req))
    IN i # 0 /\ active[i].action = "BLOCK"

\* C26: every request the worker receives is evaluated against the global
\* rules before any response is produced: a request on which an enabled
\* global BLOCK rule fires is answered with the block response, whatever its
\* path or host.
C26_GlobalRulesApplyToAllTraffic ==
    WorkerCase =>
        /\ evalOut.r.evaluated
        /\ GlobalBlockFires => evalOut.r.resp.kind = "block"

(***************************************************************************)
(* Claims on the predicate and expression evaluators (SpecEval)            *)
(***************************************************************************)
CondCase == evalIn.kind = "cond" /\ evalOut.done

\* the field of the predicate is not one that the projector produced for the
\* request: its value is absent, or its name is outside the vocabulary
AbsentField == evalIn.match.field \notin DOMAIN getRequestData(evalIn.req)

\* C28: on a field whose projected value is absent, or whose name is outside
\* the vocabulary, is_null is true, is_not_null is false and every other
\* operator, the negated ones included, is false.
C28_AbsentValueIsFalse ==
    (CondCase /\ AbsentField) =>
        evalOut.r.result = (evalIn.match.operator = "is_null")

ExprCase == evalIn.kind = "expr" /\ evalOut.done

\* predicate i of the input expression is true on the projected request
PredicateHolds(i) ==
    checkCondition(Field(getRequestData(evalIn.req), evalIn.expression[i].field),
                   evalIn.expression[i].operator, evalIn.expression[i].value)

\* C29: an expression matches a request iff every one of its predicates is
\* true on the projected request: the empty expression matches, and an
\* expression with a false predicate does not, whatever its position.
C29_ExpressionIsConjunction ==
    ExprCase =>
        /\ evalOut.r = (\A i \in 1..Len(evalIn.expression) : PredicateHolds(i))
        /\ evalIn.expression = <<>> => evalOut.r

\* an expression did not match whose only false predicate is its last
C29_Witness ==
    /\ ExprCase
    /\ Len(evalIn.expression) = MaxConds
    /\ \A i \in 1..(MaxConds - 1) : PredicateHolds(i)
    /\ ~PredicateHolds(MaxConds)
    /\ ~evalOut.r

\* the predicate is a regular-expression test whose pattern does not compile
InvalidRegExp(match) ==
    match.operator \in {"matches", "not_matches"} /\ match.value \in InvalidPatterns

\* the input table's rule "b" has such a predicate
RegexRuleCase ==
    /\ evalIn.kind = "route" /\ evalOut.done
    /\ evalIn.rules \in RegexRuleTables

\* C30: a matches or not_matches predicate whose value is not a valid regular
\* expression is false and raises no error; a rule that contains it is not
\* matched, and evaluation goes on to the next rule.
C30_InvalidPatternIsFalse ==
    /\ (CondCase /\ InvalidRegExp(evalIn.match)) => ~evalOut.r.result
    /\ RegexRuleCase =>
            evalOut.r.matchedRuleId =
                IF Len(evalIn.rules) = 1 THEN "default-route-block" ELSE "a"

\* not_matches with a pattern that does not compile was false on a value that
\* is present
C30_Witness ==
    /\ CondCase
    /\ evalIn.match.operator = "not_matches" /\ evalIn.match.value = Str(<<"(">>)
    /\ evalOut.r.actualValue = Str(GET)
    /\ ~evalOut.r.result

\* the predicate was applied to a value that is present
PresentValue == CondCase /\ ~IsNullish(evalOut.r.actualValue)

\* some element of the list is loosely equal (==) to the value
LooselyIn(a, v) == \E i \in 1..Len(v.xs) : LooseEq(v.xs[i], a)

\* C31: for a present value and a list, in is true iff some element of the
\* list is loosely equal to the value (the number 10 and the string "10"
\* count as equal), and not_in is true iff no element is.
C31_InIsLooseMembership ==
    (PresentValue /\ evalIn.match.value.t = "array") =>
        /\ evalIn.match.operator = "in" =>
                evalOut.r.result = LooselyIn(evalOut.r.actualValue, evalIn.match.value)
        /\ evalIn.match.operator = "not_in" =>
                evalOut.r.result = ~LooselyIn(evalOut.r.actualValue, evalIn.match.value)

\* C32: for a present value a and a rule value v, equals is true iff the
\* string representation of a is the string representation of v (the boolean
\* true equals the string "true", the number 10 equals the string "10"), and
\* not_equals is true iff the two differ.
C32_EqualsComparesStrings ==
    PresentValue =>
        /\ evalIn.match.operator = "equals" =>
                evalOut.r.result = (ToStr(evalOut.r.actualValue) = ToStr(evalIn.match.value))
        /\ evalIn.match.operator = "not_equals" =>
                evalOut.r.result = (ToStr(evalOut.r.actualValue) # ToStr(evalIn.match.value))

\* the request announces a body: its content-length header is a number
\* greater than 0, or its transfer-encoding header is chunked
AnnouncesBody(req) ==
    \/ /\ "content-length" \in DOMAIN req.headers
       /\ req.headers["content-length"] # <<>>
       /\ IsNumeric(req.headers["content-length"])
       /\ DigitsToNat(req.headers["content-length"]) > 0
    \/ /\ "transfer-encoding" \in DOMAIN req.headers
       /\ req.headers["transfer-encoding"] = CHUNKED

\* C33: for every request the worker evaluates, the projected field
\* derived.body.has_body is true iff the content-length header of the request
\* is greater than 0 or its transfer-encoding header is chunked.
C33_HasBodyFromHeaders ==
    (CondCase /\ evalIn.match.field = "derived.body.has_body") =>
        evalOut.r.actualValue = Bool(AnnouncesBody(evalIn.req))

(***************************************************************************)
(* Claims on termination of the pipeline (SpecFetch)                       *)
(***************************************************************************)
\* the kinds of response of the four terminal states: the block response,
\* the final deny (landing page or 404), the origin's response, the 500 of
\* a misconfigured origin
TerminalKinds == {"block", "landing", "no_route", "origin", "misconfig"}

\* C34: for every request, one without a Host header included, and every
\* stored configuration, the pipeline ends in one of the terminal states with
\* a well-formed response: no step ends in an unhandled error.
C34_PipelineTerminates ==
    FetchCase => evalOut.r.resp.kind \in TerminalKinds

(***************************************************************************)
(* Claims on disabled routes (SpecFetch)                                   *)
(***************************************************************************)
\* the rows of the routes table whose host is the host of the request, or a
\* left wildcard over it
RoutesOfHost(req, rts) ==
    {i \in 1..Len(rts) :
        /\ "host" \in DOMAIN req.headers
        /\ \/ rts[i].incomingHost = req.headers["host"]
           \/ WildcardHit(rts[i], Str(req.headers["host"]))}

\* the host of the request matches a route, and only routes that are disabled
OnlyDisabledRoute ==
    /\ RoutesOfHost(evalIn.req, evalIn.routes) # {}
    /\ \A i \in RoutesOfHost(evalIn.req, evalIn.routes) : ~evalIn.routes[i].enabled

\* C35: a request whose Host matches only a route that is disabled is never
\* evaluated by the store of that route and never forwarded to its origin,
\* whatever global rules are configured.
C35_DisabledRouteIsNotServed ==
    (FetchCase /\ OnlyDisabledRoute) =>
        /\ evalOut.r.rdec = None
        /\ evalOut.r.resp.kind # "origin"

(***************************************************************************)
(* Claims on wildcard routes (SpecEval, kind "host")                       *)
(***************************************************************************)
\* C36: a left-wildcard route *.S matches a host iff the host ends with .S;
\* it does not match the bare host S, and a * anywhere but in the leading *.
\* is not a wildcard: with no exact route, the router returns a route iff some
\* row *.S has the host ending with .S, and then it returns such a row.
C36_LeftWildcardOnly ==
    (HostCase /\ ~IsNullish(evalIn.host) /\ ExactRows = {}) =>
        /\ evalOut.r.ok
        /\ WildcardRows = {} => evalOut.r.v = NoRoute
        /\ WildcardRows # {} => \E i \in WildcardRows : evalOut.r.v = evalIn.routes[i]

\* a host with two extra labels was routed to *.e, past a row with an embedded *
C36_Witness ==
    /\ HostCase
    /\ evalIn.host = Str(HostABE)
    /\ Len(evalIn.routes) = 2
    /\ evalIn.routes[1].incomingHost = AStarE
    /\ evalIn.routes[2].incomingHost = StarE
    /\ evalOut.r = Return(evalIn.routes[2])

(***************************************************************************)
(* SpecOtp: one OtpDO object (otp-do.js). Its storage is the key            *)
(* "initialized", the table otp_state with at most one row, and the alarm. *)
(* No other event is delivered to the object while it waits for its        *)
(* storage, so a request runs in one step up to an await that is not on    *)
(* the storage: `await request.json()` in initialize and `await            *)
(* createJwt(...)` in the transaction of /activate.                        *)
(***************************************************************************)
MaxOtpCalls == 5    \* requests to the object

\* setAlarm(expiresAt + (60 * 1000))
ALARM_DELAY == 60000

\* the values Date.now() takes, in order
Instants == <<1, 2, 3, 60002>>

\* the expiresAt of an initialization request
ExpiresAts == {2, 60002}

NoRow == [none |-> TRUE]

\* storage of an object that was never initialized; alarm 0 is no alarm
EmptyStorage == [initialized |-> FALSE, table |-> FALSE, row |-> NoRow, alarm |-> 0]

\* INSERT INTO otp_state (...) VALUES (?, ?, ?, ?, ?, ?, NULL); NULL is 0
OtpRow(expiresAt, createdAt) ==
    [token |-> "T", created_at |-> createdAt, expires_at |-> expiresAt, activated_at |-> 0]

\* storage.deleteAll(): the key and the table go; whether a pending alarm goes
\* too depends on the storage backend
deleteAll(storage, keepAlarm) ==
    [EmptyStorage EXCEPT !.alarm = IF keepAlarm THEN storage.alarm ELSE 0]

\* Date.now()
Now == Instants[otp.now]

\* a request to the object: op, its position, its response (status 0: none
\* yet) and history (accepted: it went past the initialized check; later: it
\* arrived after an accepted /initialize; wrote: it changed the storage)
OtpCall(op, expiresAt, later) ==
    [op |-> op, pc |-> "done", expiresAt |-> expiresAt, later |-> later,
     accepted |-> FALSE, wrote |-> FALSE, status |-> 0, success |-> FALSE]

OtpCalls == 1..Len(otp.calls)

Accepted == {i \in OtpCalls : otp.calls[i].op = "initialize" /\ otp.calls[i].accepted}

OtpOthersUnchanged ==
    UNCHANGED <<sinks, config, build, evalIn, evalOut, routes, errorPages, db, cache, tasks,
                ver, ack, started, writes>>

\* fetch, POST /initialize: hasBeenInitialized = await storage.get("initialized");
\* 409 when it is set, else this.initialize(request) up to `await request.json()`
InitializeStart(expiresAt) ==
    /\ Len(otp.calls) < MaxOtpCalls
    /\ LET call == OtpCall("initialize", expiresAt, Accepted # {})
       IN otp' = [otp EXCEPT !.calls = Append(@,
                    IF otp.storage.initialized
                    THEN [call EXCEPT !.status = 409]
                    ELSE [call EXCEPT !.pc = "json", !.accepted = TRUE])]
    /\ OtpOthersUnchanged

\* catch (e): await storage.deleteAll(); return 500
Caught(i, keepAlarm) ==
    [otp EXCEPT !.storage = deleteAll(@, keepAlarm),
                !.calls[i] = [@ EXCEPT !.pc = "done", !.status = 500, !.wrote = TRUE]]

\* initialize after request.json(): CREATE TABLE otp_state (an error when the
\* table exists), INSERT, put("initialized", true), setAlarm, return 200
initialize(i) ==
    /\ otp.calls[i].op = "initialize" /\ otp.calls[i].pc = "json"
    /\ IF otp.storage.table
       THEN \E keepAlarm \in BOOLEAN : otp' = Caught(i, keepAlarm)
       ELSE otp' = [otp EXCEPT
                !.storage = [initialized |-> TRUE, table |-> TRUE,
                             row |-> OtpRow(otp.calls[i].expiresAt, Now),
                             alarm |-> otp.calls[i].expiresAt + ALARM_DELAY],
                !.calls[i] = [@ EXCEPT !.pc = "done", !.status = 200, !.wrote = TRUE]]
    /\ OtpOthersUnchanged

\* if (!current || current.activated_at || now > current.expires_at)
Refused(current, now) ==
    current = NoRow \/ current.activated_at # 0 \/ now > current.expires_at

\* fetch, POST /activate: the transaction up to `await createJwt(...)`; the
\* SELECT is an error when the table does not exist
Activate ==
    /\ Len(otp.calls) < MaxOtpCalls
    /\ LET call == OtpCall("activate", 0, FALSE)
           i == Len(otp.calls) + 1
       IN IF ~otp.storage.table
          THEN otp' = [otp EXCEPT !.calls = Append(@, [call EXCEPT !.status = 500])]
          ELSE IF Refused(otp.storage.row, Now)
          THEN otp' = [otp EXCEPT !.calls = Append(@, [call EXCEPT !.status = 200])]
          ELSE otp' = [otp EXCEPT !.storage.row.activated_at = Now,
                                  !.calls = Append(@, [call EXCEPT !.pc = "jwt", !.wrote = TRUE])]
    /\ OtpOthersUnchanged

\* result = {success: true, accessToken, ...}; return new Response(...)
ActivateReturn(i) ==
    /\ otp.calls[i].op = "activate" /\ otp.calls[i].pc = "jwt"
    /\ otp' = [otp EXCEPT !.calls[i] = [@ EXCEPT !.pc = "done", !.status = 200, !.success = TRUE]]
    /\ OtpOthersUnchanged

\* alarm(): await storage.deleteAll()
Alarm ==
    /\ otp.storage.alarm # 0 /\ Now >= otp.storage.alarm
    /\ otp' = [otp EXCEPT !.storage = deleteAll(@, FALSE)]
    /\ OtpOthersUnchanged

\* time passes
Tick ==
    /\ otp.now < Len(Instants)
    /\ otp' = [otp EXCEPT !.now = @ + 1]
    /\ OtpOthersUnchanged

InitOtp ==
    /\ otp = [storage |-> EmptyStorage, now |-> 1, calls |-> <<>>]
    /\ evalIn = None /\ evalOut = NotApplied
    /\ routes = <<>> /\ errorPages = <<>>
    /\ db = <<>> /\ cache = <<>> /\ tasks = <<>>
    /\ ver = <<>> /\ ack = <<>> /\ started = 0 /\ writes = 0
    /\ config = <<>> /\ build = "" /\ sinks = NoRecords

NextOtp ==
    \/ \E expiresAt \in ExpiresAts : InitializeStart(expiresAt)
    \/ \E i \in OtpCalls : initialize(i)
    \/ Activate
    \/ \E i \in OtpCalls : ActivateReturn(i)
    \/ Alarm
    \/ Tick

SpecOtp == InitOtp /\ [][NextOtp]_vars

(***************************************************************************)
(* Claims on the one-time link (SpecOtp)                                   *)
(***************************************************************************)
\* the /activate requests that returned success
Successes == {i \in OtpCalls : otp.calls[i].op = "activate" /\ otp.calls[i].success}

\* C37: a one-time link is single-use: over any sequence and interleaving of
\* /activate requests to one OTP object, at most one returns success.
C37_LinkIsSingleUse == Cardinality(Successes) <= 1

\* C38: an OTP object is initialized at most once: an /initialize request that
\* arrives after another one was accepted, completed or still in progress, is
\* answered 409 and leaves the stored record unchanged.
C38_InitializedAtMostOnce ==
    \A i \in OtpCalls :
        (otp.calls[i].op = "initialize" /\ otp.calls[i].later /\ otp.calls[i].pc = "done") =>
            /\ otp.calls[i].status = 409
            /\ ~otp.calls[i].wrote

(***************************************************************************)
(* Claims on enabling a rule in the rules view (SpecUI)                    *)
(***************************************************************************)
\* the rule with this id in a list of rules
RuleAt(rules, id) == rules[CHOOSE i \in 1..Len(rules) : rules[i].id = id]

\* after the toggle the rule id comes after every rule that was enabled
\* before, and those rules keep the order they had among themselves
EnabledLast(before, after, id) ==
    /\ \A o \in IdsOf(EnabledOf(before)) :
          RuleAt(after, o).priority < RuleAt(after, id).priority
    /\ \A a, b \in IdsOf(EnabledOf(before)) :
          RuleAt(before, a).priority < RuleAt(before, b).priority
              => RuleAt(after, a).priority < RuleAt(after, b).priority

\* the step is a toggle of the disabled rule id of tenant ctx
EnablesRule(ctx, id) ==
    /\ ctx \in Contexts(config) /\ id \in IdsOf(currentRules(config, ctx))
    /\ ~RuleAt(currentRules(config, ctx), id).enabled
    /\ config' = handleRuleToggle(config, ctx, id)

\* C39: in the rules view, enabling a disabled rule gives it the largest
\* priority among the enabled rules of its tenant, so that it is evaluated
\* after every rule that was already enabled, and keeps the relative order of
\* the rules that were already enabled.
C39_EnabledRuleGoesLast ==
    [][\A ctx \in UiContexts, id \in UiRuleIds :
          EnablesRule(ctx, id) =>
              EnabledLast(currentRules(config, ctx), currentRules(config', ctx), id)]_vars

====
